---- MODULE Spec2Model ----
(***************************************************************************)
(* Model of chaquopy_stubgen: the JVM signature parser (sig_parser.py),    *)
(* the type renderer (pysafe.py), the class stub builder (class_stub.py)   *)
(* and the package driver (main.py).                                        *)
(*                                                                          *)
(* Strings that the code scans character by character (signatures,         *)
(* descriptors, internal class names, dotted type names) are sequences of  *)
(* tokens: one token per punctuation character or type tag, one token per  *)
(* identifier.  Text that the code only assembles (stub lines) is a real   *)
(* string, built with \o.  Positions are 1-based here, 0-based in Python.  *)
(***************************************************************************)
EXTENDS Integers, Sequences, FiniteSets, TLC

VARIABLES
    pc,               \* _process_package: "idle", "convert" (in the loop) or "written"
    package_dir,      \* _process_package: package_dir, as path tokens
    class_files,      \* _process_package: class_files
    package_class_data, \* _process_package: internal name -> class data
    todo,             \* the part of sorted(top_level_files) not yet visited
    classes_done,     \* _process_package: classes_done
    classes_used,     \* _process_package: classes_used
    combined_imports, \* _process_package: combined_imports
    combined_code,    \* _process_package: combined_code
    skipped,          \* the class files skipped with a warning
    out_file,         \* the __init__.pyi of the package
    dpc,              \* convert_to_python_stubs: position of the driver
    input_paths,      \* convert_to_python_stubs: the inputs not yet read
    output_depth,     \* len(output_dir.resolve().parts)
    clear_output_dir, \* convert_to_python_stubs: clear_output_dir
    packages,         \* convert_to_python_stubs: packages
    all_class_data,   \* convert_to_python_stubs: all_class_data
    loaded,           \* the inputs read so far, in order
    raised,           \* the exception convert_to_python_stubs raised, or "none"
    out_tree,         \* the files under output_dir: path -> content
    tasks,            \* the submitted package tasks: package_dir -> state
    w2,               \* a second worker process of the pool: its _process_package locals
    writes,           \* the files written since the call, and the task that wrote each
    cleared,          \* how often the call removed the output directory
    start_tree,       \* the files under output_dir when the call began
    unwritable,       \* the package directories whose file cannot be created
    first,            \* what an earlier call on the same inputs left behind
    translated,       \* sig_parser: the last call inspected and the TypeStr values it gave
    maven             \* resolve_maven_artifact: the cache, the repositories and the call

stubVars == <<pc, package_dir, class_files, package_class_data, todo, classes_done,
              classes_used, combined_imports, combined_code, skipped, out_file>>

\* what the calls of the signature parser on their own leave alone
pipelineVars ==
    <<pc, package_dir, class_files, package_class_data, todo, classes_done, classes_used,
      combined_imports, combined_code, skipped, out_file, dpc, input_paths, output_depth,
      clear_output_dir, packages, all_class_data, loaded, raised, out_tree, tasks, w2,
      writes, cleared, start_tree, unwritable, first>>

\* what the worker processes never touch
callVars == <<dpc, input_paths, output_depth, clear_output_dir, packages, all_class_data,
              loaded, raised, cleared, start_tree, unwritable, first, translated, maven>>

driverVars == <<callVars, out_tree, tasks, w2, writes>>

vars == <<stubVars, driverVars>>

RECURSIVE Call(_, _)

(***************************************************************************)
(* Generic helpers on sequences and token strings.                         *)
(***************************************************************************)
Range(s) == {s[i] : i \in DOMAIN s}

Min(a, b) == IF a < b THEN a ELSE b

RECURSIVE Join(_)
\* "".join(tokens): the text of a token string
Join(toks) == IF toks = <<>> THEN "" ELSE Head(toks) \o Join(Tail(toks))

RECURSIVE JoinWith(_, _)
\* sep.join(strs)
JoinWith(strs, sep) ==
    IF strs = <<>> THEN ""
    ELSE IF Len(strs) = 1 THEN strs[1]
    ELSE strs[1] \o sep \o JoinWith(Tail(strs), sep)

\* s.replace(a, b) for a one-character a
Replace(toks, a, b) == [i \in DOMAIN toks |-> IF toks[i] = a THEN b ELSE toks[i]]

\* s.index(ch, from): the first position >= from holding ch, 0 when there is none
IndexOf(toks, ch, from) ==
    LET hits == {i \in from..Len(toks) : toks[i] = ch}
    IN IF hits = {} THEN 0 ELSE CHOOSE i \in hits : \A j \in hits : i <= j

\* the last position holding ch, 0 when there is none
LastIndexOf(toks, ch) ==
    LET hits == {i \in DOMAIN toks : toks[i] = ch}
    IN IF hits = {} THEN 0 ELSE CHOOSE i \in hits : \A j \in hits : i >= j

\* the first position >= from whose token is in stops, Len+1 when there is none
ScanTo(toks, from, stops) ==
    LET hits == {i \in from..Len(toks) : toks[i] \in stops}
    IN IF hits = {} THEN Len(toks) + 1 ELSE CHOOSE i \in hits : \A j \in hits : i <= j

\* s.rpartition(ch)[0] and [2]
BeforeLast(toks, ch) ==
    LET k == LastIndexOf(toks, ch) IN IF k = 0 THEN <<>> ELSE SubSeq(toks, 1, k - 1)
AfterLast(toks, ch) == SubSeq(toks, LastIndexOf(toks, ch) + 1, Len(toks))

\* s.partition(ch)[0]
BeforeFirst(toks, ch) ==
    LET k == IndexOf(toks, ch, 1) IN IF k = 0 THEN toks ELSE SubSeq(toks, 1, k - 1)

N2(a, b) == <<a, ".", b>>
N3(a, b, c) == <<a, ".", b, ".", c>>

(***************************************************************************)
(* types.py                                                                 *)
(***************************************************************************)
ACC_PUBLIC == 1
ACC_PROTECTED == 4
ACC_STATIC == 8
ACC_BRIDGE == 64
ACC_VARARGS == 128
ACC_SYNTHETIC == 4096

\* access & flag, for a one-bit flag
HasFlag(access, flag) == (access \div flag) % 2 = 1

\* TypeStr(name) and TypeStr(name, type_args); type_args None is hasArgs FALSE
TS(name) == [name |-> name, hasArgs |-> FALSE, args |-> <<>>]
TSA(name, args) == [name |-> name, hasArgs |-> TRUE, args |-> args]

NoBound == [some |-> FALSE, ts |-> TS(<<>>)]
Bound(ts) == [some |-> TRUE, ts |-> ts]

TypeVarStr(java_name, python_name, bound) ==
    [java_name |-> java_name, python_name |-> python_name, bound |-> bound]

Primitive(jp, jo, pp, pt) ==
    [java_primitive |-> jp, java_object |-> jo, python_primitive |-> pp, python_type |-> pt]

PRIMITIVES == <<
    Primitive("void", N3("java", "lang", "Void"), N2("java", "jvoid"), "None"),
    Primitive("byte", N3("java", "lang", "Byte"), N2("java", "jbyte"), "int"),
    Primitive("short", N3("java", "lang", "Short"), N2("java", "jshort"), "int"),
    Primitive("int", N3("java", "lang", "Integer"), N2("java", "jint"), "int"),
    Primitive("long", N3("java", "lang", "Long"), N2("java", "jlong"), "int"),
    Primitive("boolean", N3("java", "lang", "Boolean"), N2("java", "jboolean"), "bool"),
    Primitive("double", N3("java", "lang", "Double"), N2("java", "jdouble"), "float"),
    Primitive("float", N3("java", "lang", "Float"), N2("java", "jfloat"), "float"),
    Primitive("char", N3("java", "lang", "Character"), N2("java", "jchar"), "str") >>

\* type_name in TYPE_NAME_TO_PRIMITIVE_MAP, and TYPE_NAME_TO_PRIMITIVE_MAP[type_name]
InPrimitiveMap(type_name) ==
    \E i \in DOMAIN PRIMITIVES :
        <<PRIMITIVES[i].java_primitive>> = type_name \/ PRIMITIVES[i].java_object = type_name
TYPE_NAME_TO_PRIMITIVE_MAP(type_name) ==
    PRIMITIVES[CHOOSE i \in DOMAIN PRIMITIVES :
        <<PRIMITIVES[i].java_primitive>> = type_name \/ PRIMITIVES[i].java_object = type_name]

\* the keys of PARAMETER_TO_ARRAY_TYPE_MAP are java.j<prim> for every primitive but void
ArrayKinds == <<"boolean", "byte", "short", "int", "long", "float", "double", "char">>
ArraySuffix == [boolean |-> "JavaArrayJBoolean", byte |-> "JavaArrayJByte",
                short |-> "JavaArrayJShort", int |-> "JavaArrayJInt",
                long |-> "JavaArrayJLong", float |-> "JavaArrayJFloat",
                double |-> "JavaArrayJDouble", char |-> "JavaArrayJChar"]
InArrayTypeMap(name) ==
    \E i \in DOMAIN ArrayKinds : name = N2("java", "j" \o ArrayKinds[i])
PARAMETER_TO_ARRAY_TYPE_MAP(name) ==
    LET k == ArrayKinds[CHOOSE i \in DOMAIN ArrayKinds : name = N2("java", "j" \o ArrayKinds[i])]
    IN N3("java", "chaquopy", ArraySuffix[k])
InArrayTypeMapValues(name) ==
    \E i \in DOMAIN ArrayKinds : name = N3("java", "chaquopy", ArraySuffix[ArrayKinds[i]])

JAVA_LANG_OBJECT == N3("java", "lang", "Object")
JAVA_LANG_STRING == N3("java", "lang", "String")
JAVA_LANG_CLASS == N3("java", "lang", "Class")
TYPING_UNION == N2("typing", "Union")
JAVA_ARRAY == N3("java", "chaquopy", "JavaArray")

(***************************************************************************)
(* sig_parser.py                                                            *)
(***************************************************************************)
\* _internal_to_dotted_raw
InternalToDottedRaw(name) == Replace(name, "/", ".")

\* the alternatives of java.lang.String, with str in every context
StringAlternatives_Str(is_argument, is_array_param, is_type_arg) ==
    <<TS(<<"str">>)>> \o (IF is_argument THEN <<TS(JAVA_LANG_STRING)>> ELSE <<>>)

\* translate_type_name: what it appends for java.lang.String
StringAlternatives(is_argument, is_array_param, is_type_arg) ==
    IF is_array_param \/ is_type_arg THEN <<TS(JAVA_LANG_STRING)>>
    ELSE <<TS(<<"str">>)>> \o (IF is_argument THEN <<TS(JAVA_LANG_STRING)>> ELSE <<>>)

\* translate_type_name: the union list it builds
TranslateUnion(type_name, type_args, is_argument, is_array_param, is_type_arg) ==
    LET primitive == TYPE_NAME_TO_PRIMITIVE_MAP(type_name)
        u1 == IF InPrimitiveMap(type_name)
              THEN (IF is_array_param THEN <<TS(primitive.python_primitive)>>
                    ELSE IF is_type_arg THEN <<TS(primitive.java_object)>>
                    ELSE <<TS(<<primitive.python_type>>)>>)
                   \o (IF is_argument
                       THEN <<TS(primitive.python_primitive), TS(primitive.java_object)>>
                       ELSE <<>>)
              ELSE <<>>
        u2 == IF type_name = JAVA_LANG_STRING
              THEN StringAlternatives(is_argument, is_array_param, is_type_arg)
              ELSE <<>>
        u3 == IF type_name = JAVA_LANG_CLASS
              THEN <<[name |-> N2("typing", "Type"), hasArgs |-> type_args.hasArgs,
                      args |-> type_args.args]>>
              ELSE <<>>
        u4 == IF type_name = JAVA_LANG_OBJECT
              THEN <<TS(JAVA_LANG_OBJECT)>>
                   \o (IF is_argument
                       THEN <<TS(<<"int">>), TS(<<"bool">>), TS(<<"float">>), TS(<<"str">>)>>
                       ELSE <<>>)
              ELSE <<>>
    IN u1 \o u2 \o u3 \o u4

\* translate_type_name without the len(union) == 1 case
translate_type_name_NoCollapse(type_name, type_args, is_argument, is_array_param, is_type_arg) ==
    LET union == TranslateUnion(type_name, type_args, is_argument, is_array_param, is_type_arg)
    IN [ok |-> ~(InPrimitiveMap(type_name) /\ is_array_param /\ is_argument),
        ts |-> IF Len(union) > 0 THEN TSA(TYPING_UNION, union)
               ELSE [name |-> type_name, hasArgs |-> type_args.hasArgs,
                     args |-> type_args.args]]

\* translate_type_name; type_args is a TypeStr whose hasArgs/args carry the list.
\* ok is FALSE where the code raises ValueError.
translate_type_name(type_name, type_args, is_argument, is_array_param, is_type_arg) ==
    IF InPrimitiveMap(type_name) /\ is_array_param /\ is_argument
    THEN [ok |-> FALSE, ts |-> TS(<<>>)]
    ELSE LET union == TranslateUnion(type_name, type_args, is_argument, is_array_param,
                                     is_type_arg)
         IN [ok |-> TRUE,
             ts |-> IF Len(union) = 1 THEN union[1]
                    ELSE IF Len(union) > 1 THEN TSA(TYPING_UNION, union)
                    ELSE [name |-> type_name, hasArgs |-> type_args.hasArgs,
                          args |-> type_args.args]]

PRIMITIVE_DESCS == [B |-> "byte", C |-> "char", D |-> "double", F |-> "float", I |-> "int",
                    J |-> "long", S |-> "short", V |-> "void", Z |-> "boolean"]

ParseFail == [ok |-> FALSE, ts |-> TS(<<>>), end |-> 0]
ParseOk(ts, end) == [ok |-> TRUE, ts |-> ts, end |-> end]

RECURSIVE SkipDepth(_, _, _)
\* the "while depth > 0" loop of the inner-class suffix; 0 where sig[i] is out of range
SkipDepth(sig, i, depth) ==
    IF depth = 0 THEN i
    ELSE IF i > Len(sig) THEN 0
    ELSE IF sig[i] = "<" THEN SkipDepth(sig, i + 1, depth + 1)
    ELSE IF sig[i] = ">" THEN SkipDepth(sig, i + 1, depth - 1)
    ELSE SkipDepth(sig, i + 1, depth)

\* skip any inner-class suffix .InnerName<...>; 0 where the code raises IndexError
SkipInnerSuffix(sig, i) ==
    IF i <= Len(sig) /\ sig[i] = "."
    THEN LET j == ScanTo(sig, i + 1, {"<", ";", "."})
         IN IF j <= Len(sig) /\ sig[j] = "<"
            THEN LET k == SkipDepth(sig, j + 1, 1)
                 IN IF k = 0 THEN 0 ELSE Call("SkipInnerSuffix", <<sig, k>>)
            ELSE Call("SkipInnerSuffix", <<sig, j>>)
    ELSE i


\* the "while sig[i] != '>'" loop over the type arguments; end is after the '>'
ParseTypeArgs(sig, i, type_vars, acc) ==
    IF i > Len(sig) THEN [ok |-> FALSE, args |-> <<>>, end |-> 0]
    ELSE IF sig[i] = ">" THEN [ok |-> TRUE, args |-> acc, end |-> i + 1]
    ELSE LET arg_result == Call("ParseTypeSignature", <<sig, i, type_vars, FALSE, FALSE, TRUE>>)
         IN IF ~arg_result.ok THEN [ok |-> FALSE, args |-> <<>>, end |-> 0]
            ELSE Call("ParseTypeArgs", <<sig, arg_result.end, type_vars, Append(acc, arg_result.ts)>>)

\* _parse_type_signature
ParseTypeSignature(sig, pos, type_vars, is_argument, is_array_param, is_type_arg) ==
    IF pos > Len(sig) THEN ParseFail
    ELSE IF sig[pos] \in DOMAIN PRIMITIVE_DESCS
    THEN LET t == Call("translate_type_name", <<<<PRIMITIVE_DESCS[sig[pos]]>>, TS(<<>>), is_argument,
                                      is_array_param, is_type_arg>>)
         IN IF t.ok THEN ParseOk(t.ts, pos + 1) ELSE ParseFail
    ELSE IF sig[pos] = "["
    THEN LET elem == Call("ParseTypeSignature", <<sig, pos + 1, type_vars, FALSE, TRUE, FALSE>>)
         IN IF ~elem.ok THEN ParseFail
            ELSE IF InArrayTypeMap(elem.ts.name)
            THEN ParseOk(TS(PARAMETER_TO_ARRAY_TYPE_MAP(elem.ts.name)), elem.end)
            ELSE ParseOk(TSA(JAVA_ARRAY, <<elem.ts>>), elem.end)
    ELSE IF sig[pos] = "T"
    THEN LET end == IndexOf(sig, ";", pos + 1)
             var_name == SubSeq(sig, pos + 1, end - 1)
             matching == SelectSeq(type_vars, LAMBDA tv : tv.java_name = Join(var_name))
         IN IF end = 0 THEN ParseFail
            ELSE IF matching # <<>> THEN ParseOk(TS(<<matching[1].python_name>>), end + 1)
            ELSE ParseOk(TS(var_name), end + 1)
    ELSE IF sig[pos] = "*" THEN ParseOk(TS(JAVA_LANG_OBJECT), pos + 1)
    ELSE IF sig[pos] \in {"+", "-"}
    THEN Call("ParseTypeSignature", <<sig, pos + 1, type_vars, FALSE, FALSE, FALSE>>)
    ELSE IF sig[pos] = "L"
    THEN LET i0 == ScanTo(sig, pos + 1, {"<", ";", "."})
             class_name == InternalToDottedRaw(SubSeq(sig, pos + 1, i0 - 1))
             generic == i0 <= Len(sig) /\ sig[i0] = "<"
             targs == IF generic THEN Call("ParseTypeArgs", <<sig, i0 + 1, type_vars, <<>>>>)
                      ELSE [ok |-> TRUE, args |-> <<>>, end |-> i0]
             i1 == IF targs.ok THEN Call("SkipInnerSuffix", <<sig, targs.end>>) ELSE 0
             t == Call("translate_type_name", <<class_name,
                      [name |-> <<>>, hasArgs |-> generic, args |-> targs.args],
                      is_argument, is_array_param, is_type_arg>>)
         IN IF ~targs.ok \/ i1 = 0 \/ i1 > Len(sig) THEN ParseFail
            ELSE IF sig[i1] # ";" THEN ParseFail
            ELSE IF ~t.ok THEN ParseFail
            ELSE ParseOk(t.ts, i1 + 1)
    ELSE ParseFail

\* the "while sig[i] == ':'" loop of parse_class_type_params; 0 where parsing raises
SkipInterfaceBounds(sig, i) ==
    IF i <= Len(sig) /\ sig[i] = ":"
    THEN IF i + 1 <= Len(sig) /\ sig[i + 1] \notin {":", ">"}
         THEN LET result == Call("ParseTypeSignature", <<sig, i + 1, <<>>, FALSE, FALSE, FALSE>>)
              IN IF result.ok THEN Call("SkipInterfaceBounds", <<sig, result.end>>) ELSE 0
         ELSE Call("SkipInterfaceBounds", <<sig, i + 1>>)
    ELSE i

\* the "while sig[i] != '>'" loop of parse_class_type_params
ParseTypeParamsLoop(sig, i, params) ==
    IF i > Len(sig) THEN [ok |-> FALSE, params |-> <<>>, end |-> 0]
    ELSE IF sig[i] = ">" THEN [ok |-> TRUE, params |-> params, end |-> i + 1]
    ELSE LET colon == IndexOf(sig, ":", i)
             name == Join(SubSeq(sig, i, colon - 1))
             i1 == colon + 1
             hasClassBound == i1 <= Len(sig) /\ sig[i1] # ":" /\ sig[i1] # ">"
             result == Call("ParseTypeSignature", <<sig, i1, <<>>, FALSE, FALSE, FALSE>>)
             bound == IF hasClassBound /\ result.ok
                         /\ result.ts.name \notin {JAVA_LANG_OBJECT, <<"None">>}
                      THEN Bound(result.ts) ELSE NoBound
             i2 == IF hasClassBound THEN result.end ELSE i1
             i3 == Call("SkipInterfaceBounds", <<sig, i2>>)
         IN IF colon = 0 THEN [ok |-> FALSE, params |-> <<>>, end |-> 0]
            ELSE IF hasClassBound /\ ~result.ok THEN [ok |-> FALSE, params |-> <<>>, end |-> 0]
            ELSE IF i3 = 0 THEN [ok |-> FALSE, params |-> <<>>, end |-> 0]
            ELSE Call("ParseTypeParamsLoop", <<sig, i3,
                     Append(params, [name |-> name, bound |-> bound])>>)

\* parse_class_type_params: (java_name, bound) pairs and the position after '>'
parse_class_type_params(sig) ==
    IF sig = <<>> \/ sig[1] # "<" THEN [ok |-> TRUE, params |-> <<>>, end |-> 1]
    ELSE Call("ParseTypeParamsLoop", <<sig, 2, <<>>>>)

\* the python_name f"_{scope_id}__{name}"
PythonName(scope_id, name) == "_" \o scope_id \o "__" \o name

\* make_type_vars
make_type_vars(params, scope_id) ==
    [i \in DOMAIN params |->
        TypeVarStr(params[i].name, PythonName(scope_id, params[i].name), params[i].bound)]

\* the "while source[pos] != ')'" loop of parse_method_signature
ParseParamsLoop(source, pos, all_type_vars, param_types) ==
    IF pos > Len(source) THEN [ok |-> FALSE, types |-> <<>>, end |-> 0]
    ELSE IF source[pos] = ")" THEN [ok |-> TRUE, types |-> param_types, end |-> pos + 1]
    ELSE LET result == Call("ParseTypeSignature", <<source, pos, all_type_vars, TRUE, FALSE, FALSE>>)
         IN IF ~result.ok THEN [ok |-> FALSE, types |-> <<>>, end |-> 0]
            ELSE Call("ParseParamsLoop", <<source, result.end, all_type_vars,
                                 Append(param_types, result.ts)>>)

MethodParseFail ==
    [ok |-> FALSE, method_type_vars |-> <<>>, param_types |-> <<>>, ret_type |-> TS(<<>>)]

\* the method-level variables parse_method_signature builds from the raw parameters
MethodTypeVars(raw_params, scope_id) ==
    [i \in DOMAIN raw_params |->
        TypeVarStr(raw_params[i].name, PythonName(scope_id, raw_params[i].name),
                   raw_params[i].bound)]

\* parse_method_signature; sig is <<>> when the method has no generic signature
parse_method_signature(sig, desc, type_vars, is_constructor, scope_id) ==
    LET source == IF sig # <<>> THEN sig ELSE desc
        prelude == IF source # <<>> /\ source[1] = "<"
                   THEN Call("parse_class_type_params", <<source>>)
                   ELSE [ok |-> TRUE, params |-> <<>>, end |-> 1]
        method_type_vars == MethodTypeVars(prelude.params, scope_id)
        all_type_vars == method_type_vars \o type_vars
        pos == prelude.end
        ps == Call("ParseParamsLoop", <<source, pos + 1, all_type_vars, <<>>>>)
        ret == Call("ParseTypeSignature", <<source, ps.end, all_type_vars, FALSE, FALSE, FALSE>>)
    IN IF source = <<>> \/ ~prelude.ok THEN MethodParseFail
       ELSE IF pos > Len(source) THEN MethodParseFail
       ELSE IF source[pos] # "(" THEN MethodParseFail
       ELSE IF ~ps.ok THEN MethodParseFail
       ELSE IF is_constructor
       THEN [ok |-> TRUE, method_type_vars |-> method_type_vars,
             param_types |-> ps.types, ret_type |-> TS(<<"None">>)]
       ELSE IF ~ret.ok THEN MethodParseFail
       ELSE [ok |-> TRUE, method_type_vars |-> method_type_vars,
             param_types |-> ps.types, ret_type |-> ret.ts]

\* parse_field_type
parse_field_type(sig, desc, type_vars) ==
    LET source == IF sig # <<>> THEN sig ELSE desc
        result == Call("ParseTypeSignature", <<source, 1, type_vars, FALSE, FALSE, FALSE>>)
    IN [ok |-> result.ok, ts |-> result.ts]

\* the "while pos < len(sig)" loop of parse_super_types
ParseSupersLoop(sig, pos, type_vars, supers) ==
    IF pos > Len(sig) THEN [ok |-> TRUE, supers |-> supers]
    ELSE LET result == Call("ParseTypeSignature", <<sig, pos, type_vars, FALSE, FALSE, FALSE>>)
         IN IF ~result.ok THEN [ok |-> FALSE, supers |-> <<>>]
            ELSE Call("ParseSupersLoop", <<sig, result.end, type_vars, Append(supers, result.ts)>>)

\* parse_super_types; super_name is <<>> when the class has none
parse_super_types(sig, super_name, interfaces, type_vars) ==
    IF sig # <<>>
    THEN LET prelude == Call("parse_class_type_params", <<sig>>)
         IN IF ~prelude.ok THEN [ok |-> FALSE, supers |-> <<>>]
            ELSE Call("ParseSupersLoop", <<sig, prelude.end, type_vars, <<>>>>)
    ELSE [ok |-> TRUE,
          supers |->
            (IF super_name # <<>>
             THEN <<Call("translate_type_name", <<InternalToDottedRaw(super_name), TS(<<>>),
                                        FALSE, FALSE, FALSE>>).ts>>
             ELSE <<>>)
            \o [i \in DOMAIN interfaces |->
                  Call("translate_type_name", <<InternalToDottedRaw(interfaces[i]), TS(<<>>),
                                      FALSE, FALSE, FALSE>>).ts]]

(***************************************************************************)
(* pysafe.py                                                                *)
(***************************************************************************)
\* keyword.kwlist
PythonKeywords ==
    {"False", "None", "True", "and", "as", "assert", "async", "await", "break", "class",
     "continue", "def", "del", "elif", "else", "except", "finally", "for", "from",
     "global", "if", "import", "in", "is", "lambda", "nonlocal", "not", "or", "pass",
     "raise", "return", "try", "while", "with", "yield"}

EXTRA_RESERVED_WORDS == {"exec", "print"}

is_reserved_word(word) == word \in PythonKeywords \/ word \in EXTRA_RESERVED_WORDS

\* The identifiers of the modelled inputs that start and end with "__" (len >= 4)
DunderNames == {"__init__", "__str__", "__len__"}

\* pysafe: some is FALSE where the code returns None
pysafe(s) ==
    IF s \in DunderNames THEN [some |-> FALSE, v |-> ""]
    ELSE IF is_reserved_word(s) THEN [some |-> TRUE, v |-> s \o "_"]
    ELSE [some |-> TRUE, v |-> s]

RECURSIVE pysafe_package_path(_)
\* pysafe_package_path, on the token string of a dotted path: each "."-separated
\* segment goes through pysafe (a None result gives the empty segment)
pysafe_package_path(package_path) ==
    LET k == IndexOf(package_path, ".", 1)
        segment == IF k = 0 THEN package_path ELSE SubSeq(package_path, 1, k - 1)
        safe == IF Len(segment) = 1
                THEN (IF Call("pysafe", <<segment[1]>>).some THEN <<Call("pysafe", <<segment[1]>>).v>> ELSE <<>>)
                ELSE segment
    IN IF k = 0 THEN safe
       ELSE safe \o <<".">>
            \o pysafe_package_path(SubSeq(package_path, k + 1, Len(package_path)))


\* the list comprehension over type_args in to_annotated_type (can_be_deferred defaults)
AnnotateArgs(type_args, package, done) ==
    IF type_args = <<>> THEN [texts |-> <<>>, imports |-> <<>>, used |-> {}]
    ELSE LET h == Call("to_annotated_type", <<Head(type_args), package, done, TRUE>>)
             t == Call("AnnotateArgs", <<Tail(type_args), package, done>>)
         IN [texts |-> <<h.text>> \o t.texts, imports |-> h.imports \o t.imports,
             used |-> h.used \cup t.used]

\* imports_output.append(f"import {own_package}") for a qualified name of the own package,
\* imports_output.append(f"import {a_type_parent}") for a name of another package
ImportOf_OwnPackage(safe, own) == "import " \o Join(BeforeFirst(safe, "."))

ImportOf(safe, own) ==
    IF own THEN "import " \o Join(BeforeFirst(safe, "."))
    ELSE "import " \o Join(BeforeLast(safe, "."))

\* to_annotated_type: the rendered text, the lines appended to imports_output and the
\* names added to types_used (each name as its sequence of characters)
to_annotated_type(type_name, package, done, can_be_deferred) ==
    LET dotted == "." \in Range(type_name.name) /\ type_name.name # TYPING_UNION
        safe == pysafe_package_path(type_name.name)
        a_type_parent == BeforeLast(safe, ".")
        local_type == AfterLast(safe, ".")
        own == a_type_parent = pysafe_package_path(package)
        bare == a_type_parent = <<"builtins">>
                \/ (own /\ (Join(local_type) \in done \/ can_be_deferred))
        a_type == IF ~dotted THEN type_name.name
                  ELSE IF bare THEN local_type
                  ELSE safe
        imports == IF ~dotted \/ bare THEN <<>>
                   ELSE <<ImportOf(safe, own)>>
        text == Join(Replace(a_type, "$", "."))
        args == Call("AnnotateArgs", <<type_name.args, package, done>>)
    IN [text |-> IF type_name.args # <<>> \/ text = ""
                 THEN (IF text = "typing.Union" THEN JoinWith(args.texts, " | ")
                       ELSE text \o "[" \o JoinWith(args.texts, ", ") \o "]")
                 ELSE text,
        imports |-> imports \o args.imports,
        used |-> (IF dotted THEN {safe} ELSE {}) \cup args.used]

\* to_type_var_declaration
to_type_var_declaration(type_var, package, done) ==
    LET bound == Call("to_annotated_type", <<type_var.bound.ts, package, done, TRUE>>)
    IN IF type_var.bound.some
       THEN [text |-> type_var.python_name \o " = typing.TypeVar('" \o type_var.python_name
                      \o "', bound=" \o bound.text \o ")  # <" \o type_var.java_name \o ">",
             imports |-> <<"import typing">> \o bound.imports,
             used |-> bound.used]
       ELSE [text |-> type_var.python_name \o " = typing.TypeVar('" \o type_var.python_name
                      \o "')  # <" \o type_var.java_name \o ">",
             imports |-> <<"import typing">>,
             used |-> {}]

(***************************************************************************)
(* Orders.  Python compares strings by code point; TLC cannot compare      *)
(* strings, so the order is given by a table of the identifiers and        *)
(* descriptor tokens the modelled inputs use, listed in code-point order.  *)
(* No descriptor identifier is a proper prefix of another, so comparing    *)
(* descriptors token by token agrees with comparing them by character.     *)
(***************************************************************************)
StringOrder ==
    <<"$", "(", ")", "*", "+", "-", ".", ".class", "/", ":", ";", "<", "<init>", ">",
      "?", "A", "B", "Bad", "Box", "C", "Comparable", "D", "E", "Entry", "Enum", "F", "G",
      "I", "Item", "J", "K", "L", "List", "Loop", "Map", "Missing", "Node", "Object", "Part", "Ring", "Runnable", "S",
      "Serializable", "String", "T", "Throwable", "V", "Z", "[", "__init__", "a", "b",
      "cat", "f", "first", "g", "get", "i", "id", "import builtins", "import java",
      "import java.chaquopy", "import java.io", "import java.lang", "import java.util",
      "import p", "import typing", "io", "java", "k", "lang", "m", "p", "pick",
      "print", "print_", "put", "res", "same", "self", "set", "sum", "t", "this", "two", "util", "x", "xs", "y">>

\* the position of each string of the table
RankOf == [s \in Range(StringOrder) |-> CHOOSE i \in DOMAIN StringOrder : StringOrder[i] = s]

\* the rank of a string in the code-point order (0 for a string outside the table)
StrRank(str) == IF str \in DOMAIN RankOf THEN RankOf[str] ELSE 0

RECURSIVE TokensLess(_, _)
\* a < b for two token strings
TokensLess(a, b) ==
    IF b = <<>> THEN FALSE
    ELSE IF a = <<>> THEN TRUE
    ELSE IF Head(a) = Head(b) THEN TokensLess(Tail(a), Tail(b))
    ELSE StrRank(Head(a)) < StrRank(Head(b))

RECURSIVE SortedStrings(_)
\* sorted(strings) for a set of strings
SortedStrings(set) ==
    IF set = {} THEN <<>>
    ELSE LET m == CHOOSE x \in set : \A y \in set : StrRank(x) <= StrRank(y)
         IN <<m>> \o SortedStrings(set \ {m})

(***************************************************************************)
(* class_stub.py: helpers                                                   *)
(***************************************************************************)
\* org.objectweb.asm.Type.getArgumentTypes(desc): the descriptor of each argument,
\* scanning from position i
ArgumentTypes(desc, i) ==
    IF i > Len(desc) \/ desc[i] = ")" THEN <<>>
    ELSE LET j == CHOOSE k \in i..Len(desc) :
                     desc[k] # "[" /\ \A l \in i..(k - 1) : desc[l] = "["
             end == IF desc[j] = "L" THEN IndexOf(desc, ";", j) ELSE j
         IN <<SubSeq(desc, i, end)>> \o Call("ArgumentTypes", <<desc, end + 1>>)

\* _desc_to_whitelist_type for one well-formed descriptor
desc_to_whitelist_type(d) ==
    IF Len(d) = 1 /\ d[1] \in DOMAIN PRIMITIVE_DESCS THEN PRIMITIVE_DESCS[d[1]]
    ELSE IF d[1] = "[" THEN Call("desc_to_whitelist_type", <<Tail(d)>>) \o "[]"
    ELSE IF d[1] = "L"
    THEN Join(Replace(Replace(SubSeq(d, 2, Len(d) - 1), "/", "."), "$", "."))
    ELSE Join(d)

\* _parse_descriptor_params_for_whitelist and _method_whitelist_key
method_whitelist_key(class_name_dotted, method_name, desc) ==
    LET params == Call("ArgumentTypes", <<desc, 2>>)
    IN class_name_dotted \o "." \o method_name \o "("
       \o JoinWith([i \in DOMAIN params |-> Call("desc_to_whitelist_type", <<params[i]>>)], ", ")
       \o ")"

\* whitelists.METHOD_CAN_RETURN_NONE: a small hard-coded set of keys
METHOD_CAN_RETURN_NONE == {"java.util.Map.get(java.lang.Object)"}

\* _get_param_names_from_local_vars: some is FALSE where the code returns None
get_param_names_from_local_vars(m) ==
    LET is_static == HasFlag(m.access, ACC_STATIC)
        lvs == m.localVariables
        \* lv_map[int(lv.index)] = str(lv.name): a later entry overwrites an earlier one
        lv_map_get(slot) ==
            LET hits == {k \in DOMAIN lvs : lvs[k].index = slot}
            IN IF hits = {} THEN ""
               ELSE lvs[CHOOSE k \in hits : \A l \in hits : l <= k].name
        arg_types == Call("ArgumentTypes", <<m.desc, 2>>)
        width(at) == IF at \in {<<"J">>, <<"D">>} THEN 2 ELSE 1
        slotOf[i \in 1..Len(arg_types)] ==
            IF i = 1 THEN (IF is_static THEN 0 ELSE 1)
            ELSE slotOf[i - 1] + width(arg_types[i - 1])
        names == [i \in 1..Len(arg_types) |-> lv_map_get(slotOf[i])]
    IN IF lvs = <<>> THEN [some |-> FALSE, names |-> <<>>]
       ELSE IF \E i \in DOMAIN names : names[i] # "" THEN [some |-> TRUE, names |-> names]
       ELSE [some |-> FALSE, names |-> <<>>]

\* _count_typevar_uses, for one TypeVar name given as a TypeStr name
count_typevar_uses(type_str, tv_name) ==
    LET sub[i \in 0..Len(type_str.args)] ==
            IF i = 0 THEN 0 ELSE sub[i - 1] + Call("count_typevar_uses", <<type_str.args[i], tv_name>>)
    IN (IF type_str.name = tv_name THEN 1 ELSE 0) + sub[Len(type_str.args)]

\* substitute_typestr that does not descend into the type arguments
substitute_typestr_Shallow(type_str, subs) ==
    IF type_str.name \in DOMAIN subs THEN subs[type_str.name] ELSE type_str

\* _substitute_typestr; subs is a function from TypeStr names to TypeStr
substitute_typestr(type_str, subs) ==
    IF type_str.name \in DOMAIN subs THEN subs[type_str.name]
    ELSE IF type_str.args # <<>>
    THEN TSA(type_str.name,
             [i \in DOMAIN type_str.args |-> Call("substitute_typestr", <<type_str.args[i], subs>>)])
    ELSE type_str

\* IsKept with the threshold off by one
IsKept_MoreThanTwo(uses) == uses > 2

\* the threshold of _eliminate_single_use_type_vars: a variable is kept when it is used
\* more than once
IsKept(uses) == uses > 1

\* _eliminate_single_use_type_vars
eliminate_single_use_type_vars(method_type_vars, param_types, ret_type) ==
    LET uses(tv) ==
            LET c[i \in 0..Len(param_types)] ==
                    IF i = 0 THEN 0
                    ELSE c[i - 1] + Call("count_typevar_uses", <<param_types[i], <<tv.python_name>>>>)
            IN c[Len(param_types)] + Call("count_typevar_uses", <<ret_type, <<tv.python_name>>>>)
        gone == {i \in DOMAIN method_type_vars : ~IsKept(uses(method_type_vars[i]))}
        subs == [n \in {<<method_type_vars[i].python_name>> : i \in gone} |->
                    LET tv == method_type_vars[CHOOSE i \in gone :
                                    <<method_type_vars[i].python_name>> = n]
                    IN IF tv.bound.some THEN tv.bound.ts ELSE TS(JAVA_LANG_OBJECT)]
        kept == SelectSeq(method_type_vars, LAMBDA tv : IsKept(uses(tv)))
    IN [method_type_vars |-> kept,
        param_types |-> [i \in DOMAIN param_types |-> Call("substitute_typestr", <<param_types[i], subs>>)],
        ret_type |-> Call("substitute_typestr", <<ret_type, subs>>)]

(***************************************************************************)
(* class_stub.py: _generate_method_stub_asm                                 *)
(*                                                                          *)
(* A stub line is a record: its text, its indentation level (the code      *)
(* prepends four spaces per level), and what the text was assembled from:  *)
(* the name it declares, the parameters of a def and the descriptor of its *)
(* method, and for a class header the supertypes it renders, the whole     *)
(* base list and the type variables.                                        *)
(***************************************************************************)
Line(kind, text) ==
    [ind |-> 0, kind |-> kind, text |-> text, name |-> "", parts |-> <<>>,
     supers |-> <<>>, bases |-> <<>>, tvs |-> <<>>, desc |-> <<>>]

BlankLine == Line("blank", "")

\* the line of a TypeVar declaration
TypeVarLine(decl, python_name) == [Line("typevar", decl) EXCEPT !.name = python_name]

\* ("    " + line) if line.strip() else "", and f"    {line}" for a member line
Indent(line) == [line EXCEPT !.ind = @ + 1]
IndentNested(line) == IF line.text = "" THEN line ELSE Indent(line)

RECURSIVE Spaces(_)
Spaces(n) == IF n = 0 THEN "" ELSE "    " \o Spaces(n - 1)

\* the text of a line as written to the file
LineText(line) == Spaces(line.ind) \o line.text

ArgSig(name, arg_type, var_args) ==
    [name |-> name, arg_type |-> arg_type, var_args |-> var_args]

\* a sort key without the number of arguments
SortKeyLess_DescOnly(m1, m2) == TokensLess(m1.desc, m2.desc)

\* sort_key(m1) < sort_key(m2): (len(arg_types), str(m.desc))
SortKeyLess(m1, m2) ==
    LET n1 == Len(Call("ArgumentTypes", <<m1.desc, 2>>))
        n2 == Len(Call("ArgumentTypes", <<m2.desc, 2>>))
    IN n1 < n2 \/ (n1 = n2 /\ TokensLess(m1.desc, m2.desc))

\* sorted(methods, key=sort_key): stable, so equal keys keep their order
SortedMethods(methods) ==
    IF methods = <<>> THEN <<>>
    ELSE LET rest == Call("SortedMethods", <<SubSeq(methods, 1, Len(methods) - 1)>>)
             m == methods[Len(methods)]
             k == Cardinality({i \in DOMAIN rest : ~SortKeyLess(m, rest[i])})
         IN SubSeq(rest, 1, k) \o <<m>> \o SubSeq(rest, k + 1, Len(rest))

\* the varargs unwrapping of the last parameter type
UnwrapVarargs(pt) ==
    IF pt.name = JAVA_ARRAY /\ pt.args # <<>> THEN pt.args[1] ELSE pt

\* f"{scope_id_prefix}_{i}" if is_overloaded else scope_id_prefix; i counts from 0
OverloadScope(scope_id_prefix, i, is_overloaded) ==
    IF is_overloaded THEN scope_id_prefix \o "_" \o ToString(i) ELSE scope_id_prefix

\* UsableForMethod that hands the class variables to static methods too
UsableForMethod_Always(class_type_vars, is_static) == class_type_vars

\* the class variables a method may use: none for a static method
UsableForMethod(class_type_vars, is_static) == IF is_static THEN <<>> ELSE class_type_vars

\* One iteration of the first loop of _generate_method_stub_asm: the JavaFunctionSig
\* of overload m, the i-th (from 0) in sorted order.  ok is FALSE where parsing raises.
FunctionSig(m, i, method_name_py, is_overloaded, class_type_vars, class_name_dotted, scope_id_prefix) ==
    LET is_constructor == method_name_py = "__init__"
        is_static == HasFlag(m.access, ACC_STATIC)
        is_varargs == HasFlag(m.access, ACC_VARARGS)
        parsed == Call("parse_method_signature", <<m.signature, m.desc,
                      UsableForMethod(class_type_vars, is_static), is_constructor,
                      OverloadScope(scope_id_prefix, i, is_overloaded)>>)
        el == IF parsed.method_type_vars # <<>>
              THEN Call("eliminate_single_use_type_vars", <<parsed.method_type_vars,
                                                  parsed.param_types, parsed.ret_type>>)
              ELSE [method_type_vars |-> parsed.method_type_vars,
                    param_types |-> parsed.param_types, ret_type |-> parsed.ret_type]
        param_names == Call("get_param_names_from_local_vars", <<m>>)
        n == Len(el.param_types)
        arg(idx) ==
            LET is_va == is_varargs /\ idx = n
                pt == IF is_va THEN UnwrapVarargs(el.param_types[idx])
                      ELSE el.param_types[idx]
                arg_name == IF param_names.some /\ idx <= Len(param_names.names)
                               /\ param_names.names[idx] # ""
                            THEN param_names.names[idx]
                            ELSE "arg" \o ToString(idx)
            IN ArgSig(arg_name, pt, is_va)
        wl_key == Call("method_whitelist_key", <<class_name_dotted, m.name, m.desc>>)
        ret_type == IF wl_key \in METHOD_CAN_RETURN_NONE
                    THEN TSA(TYPING_UNION, <<el.ret_type, TS(<<"None">>)>>)
                    ELSE el.ret_type
    IN [ok |-> parsed.ok,
        name |-> method_name_py,
        args |-> (IF is_static THEN <<>> ELSE <<ArgSig("self", TS(<<>>), FALSE)>>)
                 \o [idx \in 1..n |-> arg(idx)],
        ret_type |-> ret_type,
        static |-> is_static,
        type_vars |-> el.method_type_vars,
        desc |-> m.desc]

\* a rendered parameter: its text, what it is, the type it is annotated with and, for
\* a parameter with an annotation, its name
Part(kind, text, star, arg_type) ==
    [kind |-> kind, text |-> text, star |-> star, arg_type |-> arg_type, name |-> ""]

\* SlashPosition that never looks for a varargs entry
SlashPosition_AtEnd(args) == Len(args) + 1

\* where the "/" goes: before the first varargs entry, else at the end (1-based: the
\* marker becomes the element at this position)
SlashPosition(args) ==
    LET va == {i \in DOMAIN args : args[i].var_args}
    IN IF va = {} THEN Len(args) + 1 ELSE CHOOSE i \in va : \A j \in va : i <= j

\* whether the "/" is inserted at all
NeedsSlash(args) == \E i \in DOMAIN args : args[i].name # "self" /\ ~args[i].var_args

\* the sig_parts of one signature, with the imports and used names of its annotations
SigParts(sig, package, done) ==
    LET ann(i) == Call("to_annotated_type", <<sig.args[i].arg_type, package, done, TRUE>>)
        part(i) ==
            LET arg == sig.args[i]
                safe == Call("pysafe", <<arg.name>>)
                safe_name == IF safe.some THEN safe.v
                             ELSE "invalidArgName" \o ToString(i - 1)
            IN IF arg.name = "self" THEN Part("self", "self", FALSE, <<>>)
               ELSE [Part("param",
                          (IF arg.var_args THEN "*" ELSE "") \o safe_name \o ": "
                          \o ann(i).text,
                          arg.var_args, arg.arg_type.name) EXCEPT !.name = safe_name]
        plain == [i \in DOMAIN sig.args |-> part(i)]
        k == SlashPosition(sig.args)
        typed == SelectSeq([i \in DOMAIN sig.args |-> i],
                           LAMBDA i : sig.args[i].name # "self")
        imps[j \in 0..Len(typed)] ==
            IF j = 0 THEN <<>> ELSE imps[j - 1] \o ann(typed[j]).imports
    IN [parts |-> IF NeedsSlash(sig.args)
                  THEN SubSeq(plain, 1, k - 1) \o <<Part("slash", "/", FALSE, <<>>)>>
                       \o SubSeq(plain, k, Len(plain))
                  ELSE plain,
        imports |-> imps[Len(typed)],
        used |-> UNION {ann(i).used : i \in Range(typed)}]

\* the decorator lines in front of one def
Decorators_StaticAlone(is_overloaded, static) ==
    IF static THEN <<Line("deco", "@staticmethod")>>
    ELSE IF is_overloaded THEN <<Line("deco", "@typing.overload")>> ELSE <<>>

Decorators(is_overloaded, static) ==
    (IF is_overloaded THEN <<Line("deco", "@typing.overload")>> ELSE <<>>)
    \o (IF static THEN <<Line("deco", "@staticmethod")>> ELSE <<>>)

\* One iteration of the second loop of _generate_method_stub_asm: the decorators and
\* the def line of one signature
DefLines(sig, is_overloaded, package, done) ==
    LET is_constructor == sig.name = "__init__"
        sp == Call("SigParts", <<sig, package, done>>)
        params == JoinWith([i \in DOMAIN sp.parts |-> sp.parts[i].text], ", ")
        fn_name == Call("pysafe", <<sig.name>>)
        ret == Call("to_annotated_type", <<sig.ret_type, package, done, TRUE>>)
        def == IF is_constructor
               THEN <<[Line("def", "def __init__(" \o params \o ") -> None: ...")
                        EXCEPT !.name = "__init__", !.parts = sp.parts,
                               !.desc = sig.desc]>>
               ELSE IF ~fn_name.some THEN <<>>
               ELSE <<[Line("def", "def " \o fn_name.v \o "(" \o params \o ") -> "
                                   \o ret.text \o ": ...")
                        EXCEPT !.name = fn_name.v, !.parts = sp.parts,
                               !.desc = sig.desc]>>
    IN [lines |-> Decorators(is_overloaded, sig.static) \o def,
        imports |-> (IF is_overloaded THEN <<"import typing">> ELSE <<>>) \o sp.imports
                    \o (IF is_constructor \/ ~fn_name.some THEN <<>> ELSE ret.imports),
        used |-> sp.used
                 \cup (IF is_constructor \/ ~fn_name.some THEN {} ELSE ret.used)]

\* _generate_method_stub_asm: the lines appended to output, the lines appended to
\* imports_output and the names added to classes_used.  ok is FALSE where the code
\* raises, which it does before it appends anything.
generate_method_stub_asm(package, method_name_py, methods, done, class_type_vars, class_name_dotted, scope_id_prefix) ==
    LET is_overloaded == Len(methods) > 1
        sorted == Call("SortedMethods", <<methods>>)
        signatures == [i \in DOMAIN sorted |->
                         Call("FunctionSig", <<sorted[i], i - 1, method_name_py, is_overloaded,
                                     class_type_vars, class_name_dotted, scope_id_prefix>>)]
        ok == \A i \in DOMAIN signatures : signatures[i].ok
        tvs[i \in 0..Len(signatures)] ==
            IF i = 0 THEN <<>> ELSE tvs[i - 1] \o signatures[i].type_vars
        decls == [j \in DOMAIN tvs[Len(signatures)] |->
                    Call("to_type_var_declaration", <<tvs[Len(signatures)][j], package, done>>)]
        defs == [i \in DOMAIN signatures |->
                    Call("DefLines", <<signatures[i], is_overloaded, package, done>>)]
        declImports[j \in 0..Len(decls)] ==
            IF j = 0 THEN <<>> ELSE declImports[j - 1] \o decls[j].imports
        defLines[i \in 0..Len(defs)] == IF i = 0 THEN <<>> ELSE defLines[i - 1] \o defs[i].lines
        defImports[i \in 0..Len(defs)] ==
            IF i = 0 THEN <<>> ELSE defImports[i - 1] \o defs[i].imports
    IN IF ~ok THEN [ok |-> FALSE, output |-> <<>>, imports |-> <<>>, used |-> {}]
       ELSE [ok |-> TRUE,
             output |-> [j \in DOMAIN decls |->
                            TypeVarLine(decls[j].text, tvs[Len(signatures)][j].python_name)]
                        \o defLines[Len(defs)],
             imports |-> declImports[Len(decls)] \o defImports[Len(defs)],
             used |-> UNION {decls[j].used : j \in DOMAIN decls}
                      \cup UNION {defs[i].used : i \in DOMAIN defs}]

(***************************************************************************)
(* class_stub.py: convert_java_class_to_python_stub                         *)
(*                                                                          *)
(* A class file's bytes are modelled by the ClassNode that ASM reads from  *)
(* them: name, access, signature, superName, interfaces, fields, methods,  *)
(* innerClasses, outerMethod.  An absent signature or name is <<>>.        *)
(***************************************************************************)
EmptyStub(done) ==
    [ok |-> TRUE, imports |-> <<>>, type_vars |-> <<>>, code |-> <<>>, done |-> done,
     used |-> {}]

RaisedStub(done) ==
    [ok |-> FALSE, imports |-> <<>>, type_vars |-> <<>>, code |-> <<>>, done |-> done,
     used |-> {}]

\* access & (ACC_PUBLIC | ACC_PROTECTED)
IsAccessible(access) == HasFlag(access, ACC_PUBLIC) \/ HasFlag(access, ACC_PROTECTED)

\* access & (ACC_SYNTHETIC | ACC_BRIDGE)
IsSyntheticOrBridge(access) == HasFlag(access, ACC_SYNTHETIC) \/ HasFlag(access, ACC_BRIDGE)

\* raw_class_name.rsplit("/", 1)[0] with "/" replaced by "."
PackageNameOf(raw_class_name) == Replace(BeforeLast(raw_class_name, "/"), "/", ".")

\* raw_class_name.rsplit("/", 1)[-1]
SimpleNameOf(raw_class_name) == AfterLast(raw_class_name, "/")

\* simple_name.split("$")[-1]
DisplayNameOf(raw_class_name) == Join(AfterLast(SimpleNameOf(raw_class_name), "$"))

\* simple_name.replace("$", "__")
ClassPrefixOf(raw_class_name) == Join(Replace(SimpleNameOf(raw_class_name), "$", "__"))

\* raw_class_name.replace("/", ".").replace("$", ".")
ClassNameDotted(raw_class_name) == Join(Replace(Replace(raw_class_name, "/", "."), "$", "."))

\* IsStaticInner that never finds the entry
IsStaticInner_Always(cn, parent_type_vars) == TRUE

\* whether the class is a static nested class, by its own InnerClasses entry
IsStaticInner(cn, parent_type_vars) ==
    LET hits == {k \in DOMAIN cn.innerClasses :
                    cn.innerClasses[k].name = cn.name
                    /\ cn.innerClasses[k].outerName # cn.name}
    IN IF parent_type_vars.some /\ hits # {}
       THEN HasFlag(cn.innerClasses[CHOOSE k \in hits : \A l \in hits : k <= l].access,
                    ACC_STATIC)
       ELSE TRUE

\* usable_type_vars
UsableTypeVars(cn, class_type_vars, parent_type_vars) ==
    IF parent_type_vars.some /\ parent_type_vars.tvs # <<>>
       /\ ~IsStaticInner(cn, parent_type_vars)
    THEN parent_type_vars.tvs \o class_type_vars
    ELSE class_type_vars

\* the variables a field may use: none for a static field
UsableForField(usable_type_vars, field_is_static) ==
    IF field_is_static THEN <<>> ELSE usable_type_vars

\* The "Fields" loop: one entry per field, emitted or not
FieldStub(f, package, done, usable_type_vars) ==
    LET safe_field_name == Call("pysafe", <<f.name>>)
        field_is_static == HasFlag(f.access, ACC_STATIC)
        ft == Call("parse_field_type", <<f.signature, f.desc,
                               UsableForField(usable_type_vars, field_is_static)>>)
        ann == Call("to_annotated_type", <<ft.ts, package, done, TRUE>>)
        text == IF field_is_static THEN "typing.ClassVar[" \o ann.text \o "]" ELSE ann.text
    IN IF ~IsAccessible(f.access) \/ HasFlag(f.access, ACC_SYNTHETIC)
          \/ ~safe_field_name.some \/ ~ft.ok
       THEN [lines |-> <<>>, imports |-> <<>>, used |-> {}]
       ELSE [lines |-> <<[Line("field", safe_field_name.v \o ": " \o text \o " = ...")
                           EXCEPT !.name = safe_field_name.v,
                                  !.parts = <<Part("type", ann.text, FALSE, ft.ts.name)>>]>>,
             imports |-> ann.imports
                         \o (IF field_is_static THEN <<"import typing">> ELSE <<>>),
             used |-> ann.used]

\* the constructors the class stub shows
Ctors(cn) ==
    SelectSeq(cn.methods, LAMBDA m : m.name = "<init>" /\ IsAccessible(m.access)
                                     /\ ~IsSyntheticOrBridge(m.access))

\* the methods that enter method_groups
GroupedMethods(cn) ==
    SelectSeq(cn.methods, LAMBDA m : m.name \notin {"<init>", "<clinit>"}
                                     /\ IsAccessible(m.access)
                                     /\ ~IsSyntheticOrBridge(m.access)
                                     /\ Call("pysafe", <<m.name>>).some)

\* MethodGroup that ignores the key: every method lands in every group
MethodGroup_All(cn, py_name) == GroupedMethods(cn)

\* method_groups[py_name]
MethodGroup(cn, py_name) ==
    SelectSeq(GroupedMethods(cn), LAMBDA m : Call("pysafe", <<m.name>>).v = py_name)

\* sorted(method_groups): the Python-safe names in order
MethodGroupNames(cn) ==
    SortedStrings({Call("pysafe", <<GroupedMethods(cn)[i].name>>).v : i \in DOMAIN GroupedMethods(cn)})

\* DropsObject without the drop: java.lang.Object is always rendered
DropsObject_Never(st, super_type_strs) == FALSE

\* whether java.lang.Object is dropped from the supertypes
DropsObject(st, super_type_strs) ==
    st.name = JAVA_LANG_OBJECT /\ Len(super_type_strs) > 1

\* the inner classes the class stub recurses into
NestedEntries(cn, siblings) ==
    SelectSeq(cn.innerClasses,
              LAMBDA ic : /\ ic.outerName = cn.name
                          /\ ic.innerName # ""
                          /\ ~HasFlag(ic.access, ACC_SYNTHETIC)
                          /\ IsAccessible(ic.access)
                          /\ ic.name \in DOMAIN siblings)

\* the parent_type_vars handed to a nested class: None for a static one
NestedParentTypeVars(ic, usable_type_vars) ==
    IF HasFlag(ic.access, ACC_STATIC) THEN [some |-> FALSE, tvs |-> <<>>]
    ELSE [some |-> TRUE, tvs |-> usable_type_vars]

\* AssembleStub with the TypeVar lines put after the class they belong to
AssembleStub_CodeFirst(import_output, all_type_var_lines, class_code, done, used) ==
    [ok |-> TRUE, imports |-> import_output, type_vars |-> <<>>,
     code |-> <<BlankLine>> \o class_code \o all_type_var_lines, done |-> done, used |-> used]

\* the result of the caller: module-level TypeVar lines first, or a blank line and the code
AssembleStub(import_output, all_type_var_lines, class_code, done, used) ==
    IF all_type_var_lines # <<>>
    THEN [ok |-> TRUE, imports |-> import_output,
          type_vars |-> <<BlankLine>> \o all_type_var_lines, code |-> class_code,
          done |-> done, used |-> used]
    ELSE [ok |-> TRUE, imports |-> import_output, type_vars |-> <<>>,
          code |-> <<BlankLine>> \o class_code, done |-> done, used |-> used]

\* the deepest nesting of calls of convert_java_class_to_python_stub the interpreter
\* allows before it raises RecursionError (sys.getrecursionlimit(), scaled down)
RecursionLimit == 3

\* convert_java_class_to_python_stub(class_data, all_class_data, classes_done,
\* parent_type_vars), with siblings for all_class_data and done0 for classes_done:
\* the stub, the classes_done it leaves and the names it adds to classes_used.  ok is FALSE where it raises.
\* depth counts the calls of the function on the stack, this one included.
convert_java_class_to_python_stub(cn, siblings, done0, parent_type_vars, depth) ==
    IF depth > RecursionLimit THEN RaisedStub(done0)
    ELSE IF HasFlag(cn.access, ACC_SYNTHETIC) \/ cn.outerMethod THEN EmptyStub(done0)
    ELSE
    LET raw_class_name == cn.name
        package == PackageNameOf(raw_class_name)
        class_name_dotted == ClassNameDotted(raw_class_name)
        display_name == DisplayNameOf(raw_class_name)
        prelude == IF cn.signature # <<>> /\ cn.signature[1] = "<"
                   THEN Call("parse_class_type_params", <<cn.signature>>)
                   ELSE [ok |-> TRUE, params |-> <<>>, end |-> 1]
        class_type_vars == make_type_vars(prelude.params, ClassPrefixOf(raw_class_name))
        usable_type_vars == UsableTypeVars(cn, class_type_vars, parent_type_vars)
        \* ---- Fields ----
        fields == [i \in DOMAIN cn.fields |->
                      Call("FieldStub", <<cn.fields[i], package, done0, usable_type_vars>>)]
        fields_output[i \in 0..Len(fields)] ==
            IF i = 0 THEN <<>> ELSE fields_output[i - 1] \o fields[i].lines
        fields_imports[i \in 0..Len(fields)] ==
            IF i = 0 THEN <<>> ELSE fields_imports[i - 1] \o fields[i].imports
        \* ---- Constructors ----
        ctors == Ctors(cn)
        ctorStub == IF ctors # <<>>
                    THEN Call("generate_method_stub_asm", <<package, "__init__", ctors, done0,
                             usable_type_vars, class_name_dotted, "__init__">>)
                    ELSE [ok |-> TRUE, output |-> <<>>, imports |-> <<>>, used |-> {}]
        \* ---- Methods ----
        names == MethodGroupNames(cn)
        groups == [i \in DOMAIN names |->
                      Call("generate_method_stub_asm", <<package, names[i], MethodGroup(cn, names[i]),
                          done0, usable_type_vars, class_name_dotted, names[i]>>)]
        methods_output[i \in 0..Len(groups)] ==
            IF i = 0 THEN <<>> ELSE methods_output[i - 1] \o groups[i].output
        methods_imports[i \in 0..Len(groups)] ==
            IF i = 0 THEN <<>> ELSE methods_imports[i - 1] \o groups[i].imports
        \* ---- Super types ----
        parsedSupers == Call("parse_super_types", <<cn.signature, cn.superName, cn.interfaces,
                                          usable_type_vars>>)
        super_type_strs == IF parsedSupers.ok THEN parsedSupers.supers ELSE <<>>
        shown == SelectSeq(super_type_strs, LAMBDA st : ~DropsObject(st, super_type_strs))
        supers == [i \in DOMAIN shown |->
                      Call("to_annotated_type", <<shown[i], package, done0, FALSE>>)]
        supers_imports[i \in 0..Len(supers)] ==
            IF i = 0 THEN <<>> ELSE supers_imports[i - 1] \o supers[i].imports
        generic == IF class_type_vars # <<>>
                   THEN <<"typing.Generic["
                          \o JoinWith([i \in DOMAIN class_type_vars |->
                                          class_type_vars[i].python_name], ", ")
                          \o "]">>
                   ELSE <<>>
        throwable == IF class_name_dotted = "java.lang.Throwable"
                     THEN <<"builtins.Exception">> ELSE <<>>
        super_type_annotations ==
            [i \in DOMAIN supers |-> supers[i].text] \o generic \o throwable
        super_str == IF super_type_annotations # <<>>
                     THEN "(" \o JoinWith(super_type_annotations, ", ") \o ")"
                     ELSE ""
        \* ---- Nested (inner) classes ----
        entries == Call("NestedEntries", <<cn, siblings>>)
        nested == [i \in DOMAIN entries |->
                      Call("convert_java_class_to_python_stub", <<siblings[entries[i].name],
                          siblings, done0,
                          NestedParentTypeVars(entries[i], usable_type_vars), depth + 1>>)]
        emitted == SelectSeq(nested, LAMBDA st : st.ok)
        nested_imports[i \in 0..Len(emitted)] ==
            IF i = 0 THEN <<>> ELSE nested_imports[i - 1] \o emitted[i].imports
        nested_type_var_lines[i \in 0..Len(emitted)] ==
            IF i = 0 THEN <<>> ELSE nested_type_var_lines[i - 1] \o emitted[i].type_vars
        nested_classes_output[i \in 0..Len(emitted)] ==
            IF i = 0 THEN <<>>
            ELSE nested_classes_output[i - 1]
                 \o [j \in DOMAIN emitted[i].code |-> IndentNested(emitted[i].code[j])]
        nested_done == UNION {emitted[i].done : i \in DOMAIN emitted}
        done1 == done0 \cup nested_done
        \* ---- TypeVar declarations ----
        own == [i \in DOMAIN class_type_vars |->
                   Call("to_type_var_declaration", <<class_type_vars[i], package, done1>>)]
        own_type_var_lines ==
            [i \in DOMAIN own |-> TypeVarLine(own[i].text, class_type_vars[i].python_name)]
        own_imports[i \in 0..Len(own)] ==
            IF i = 0 THEN <<>> ELSE own_imports[i - 1] \o own[i].imports
        all_type_var_lines == own_type_var_lines \o nested_type_var_lines[Len(emitted)]
        \* ---- Assemble class ----
        has_body == fields_output[Len(fields)] # <<>> \/ ctorStub.output # <<>>
                    \/ methods_output[Len(groups)] # <<>>
                    \/ nested_classes_output[Len(emitted)] # <<>>
        header(text) == [Line("class", text) EXCEPT !.name = display_name,
                            !.supers = [i \in DOMAIN shown |-> shown[i].name],
                            !.bases = super_type_annotations,
                            !.tvs = [i \in DOMAIN class_type_vars |->
                                        class_type_vars[i].python_name]]
        body == fields_output[Len(fields)] \o ctorStub.output \o methods_output[Len(groups)]
        class_code ==
            IF has_body
            THEN <<header("class " \o display_name \o super_str \o ":")>>
                 \o [i \in DOMAIN body |-> Indent(body[i])]
                 \o nested_classes_output[Len(emitted)]
            ELSE <<header("class " \o display_name \o super_str \o ": ...")>>
        import_output ==
            fields_imports[Len(fields)] \o ctorStub.imports \o methods_imports[Len(groups)]
            \o supers_imports[Len(supers)]
            \o (IF class_type_vars # <<>> THEN <<"import typing">> ELSE <<>>)
            \o (IF throwable # <<>> THEN <<"import builtins">> ELSE <<>>)
            \o nested_imports[Len(emitted)] \o own_imports[Len(own)]
        used == UNION {fields[i].used : i \in DOMAIN fields} \cup ctorStub.used
                \cup UNION {groups[i].used : i \in DOMAIN groups}
                \cup UNION {supers[i].used : i \in DOMAIN supers}
                \cup UNION {nested[i].used : i \in DOMAIN nested}
                \cup UNION {own[i].used : i \in DOMAIN own}
    IN IF ~prelude.ok THEN RaisedStub(done0)
       ELSE AssembleStub(import_output, all_type_var_lines, class_code,
                         done1 \cup {display_name}, used)

(***************************************************************************)
(* Call(f, a) is the call of the operation named f with the arguments a;     *)
(* the operations above call each other by name.                            *)
(***************************************************************************)
Call(f, a) ==
    CASE f = "translate_type_name" ->
            translate_type_name(a[1], a[2], a[3], a[4], a[5])
      [] f = "ParseTypeSignature" ->
            ParseTypeSignature(a[1], a[2], a[3], a[4], a[5], a[6])
      [] f = "ParseTypeArgs" ->
            ParseTypeArgs(a[1], a[2], a[3], a[4])
      [] f = "SkipInnerSuffix" ->
            SkipInnerSuffix(a[1], a[2])
      [] f = "SkipInterfaceBounds" ->
            SkipInterfaceBounds(a[1], a[2])
      [] f = "ParseTypeParamsLoop" ->
            ParseTypeParamsLoop(a[1], a[2], a[3])
      [] f = "parse_class_type_params" ->
            parse_class_type_params(a[1])
      [] f = "ParseParamsLoop" ->
            ParseParamsLoop(a[1], a[2], a[3], a[4])
      [] f = "parse_method_signature" ->
            parse_method_signature(a[1], a[2], a[3], a[4], a[5])
      [] f = "parse_field_type" ->
            parse_field_type(a[1], a[2], a[3])
      [] f = "ParseSupersLoop" ->
            ParseSupersLoop(a[1], a[2], a[3], a[4])
      [] f = "parse_super_types" ->
            parse_super_types(a[1], a[2], a[3], a[4])
      [] f = "pysafe" ->
            pysafe(a[1])
      [] f = "to_annotated_type" ->
            to_annotated_type(a[1], a[2], a[3], a[4])
      [] f = "AnnotateArgs" ->
            AnnotateArgs(a[1], a[2], a[3])
      [] f = "to_type_var_declaration" ->
            to_type_var_declaration(a[1], a[2], a[3])
      [] f = "desc_to_whitelist_type" ->
            desc_to_whitelist_type(a[1])
      [] f = "method_whitelist_key" ->
            method_whitelist_key(a[1], a[2], a[3])
      [] f = "get_param_names_from_local_vars" ->
            get_param_names_from_local_vars(a[1])
      [] f = "count_typevar_uses" ->
            count_typevar_uses(a[1], a[2])
      [] f = "substitute_typestr" ->
            substitute_typestr(a[1], a[2])
      [] f = "eliminate_single_use_type_vars" ->
            eliminate_single_use_type_vars(a[1], a[2], a[3])
      [] f = "SortedMethods" ->
            SortedMethods(a[1])
      [] f = "FunctionSig" ->
            FunctionSig(a[1], a[2], a[3], a[4], a[5], a[6], a[7])
      [] f = "SigParts" ->
            SigParts(a[1], a[2], a[3])
      [] f = "DefLines" ->
            DefLines(a[1], a[2], a[3], a[4])
      [] f = "generate_method_stub_asm" ->
            generate_method_stub_asm(a[1], a[2], a[3], a[4], a[5], a[6], a[7])
      [] f = "FieldStub" ->
            FieldStub(a[1], a[2], a[3], a[4])
      [] f = "NestedEntries" ->
            NestedEntries(a[1], a[2])
      [] f = "convert_java_class_to_python_stub" ->
            convert_java_class_to_python_stub(a[1], a[2], a[3], a[4], a[5])
      [] f = "ArgumentTypes" ->
            ArgumentTypes(a[1], a[2])

(***************************************************************************)
(* The modelled inputs: class files as ASM reads them.                      *)
(***************************************************************************)
MaxClasses == 2     \* class files in one package
MaxMethods == 2     \* methods of the class whose members vary

I2(a, b) == <<a, "/", b>>
I3(a, b, c) == <<a, "/", b, "/", c>>
LType(name) == <<"L">> \o name \o <<";">>
LGeneric(name, type_args) == <<"L">> \o name \o <<"<">> \o type_args \o <<">", ";">>
TVar(name) == <<"T", name, ";">>
ObjectDesc == LType(I3("java", "lang", "Object"))
Formal(name, bound) == <<name, ":">> \o bound

LV(index, name) == [index |-> index, name |-> name]
FieldNode(name, access, desc, signature) ==
    [name |-> name, access |-> access, desc |-> desc, signature |-> signature]
MethodNode(name, access, desc, signature, localVariables) ==
    [name |-> name, access |-> access, desc |-> desc, signature |-> signature,
     localVariables |-> localVariables]
InnerClassNode(name, outerName, innerName, access) ==
    [name |-> name, outerName |-> outerName, innerName |-> innerName, access |-> access]
ClassNode(name, access, signature, superName, interfaces, fields, methods, innerClasses) ==
    [name |-> name, access |-> access, signature |-> signature, superName |-> superName,
     interfaces |-> interfaces, fields |-> fields, methods |-> methods,
     innerClasses |-> innerClasses, outerMethod |-> FALSE]

PUBLIC == ACC_PUBLIC
PUBLIC_STATIC == ACC_PUBLIC + ACC_STATIC

\* <T> T id(T x)
M_id ==
    MethodNode("id", PUBLIC, <<"(">> \o ObjectDesc \o <<")">> \o ObjectDesc,
               <<"<">> \o Formal("T", ObjectDesc) \o <<">", "(">> \o TVar("T") \o <<")">>
               \o TVar("T"),
               <<LV(0, "this"), LV(1, "x")>>)
\* <T> T first(List<T> xs)
M_first ==
    MethodNode("first", PUBLIC,
               <<"(">> \o LType(I3("java", "util", "List")) \o <<")">> \o ObjectDesc,
               <<"<">> \o Formal("T", ObjectDesc) \o <<">", "(">>
               \o LGeneric(I3("java", "util", "List"), TVar("T")) \o <<")">> \o TVar("T"),
               <<LV(0, "this"), LV(1, "xs")>>)
\* static int sum(int... xs)
M_sum ==
    MethodNode("sum", PUBLIC_STATIC + ACC_VARARGS, <<"(", "[", "I", ")", "I">>, <<>>,
               <<LV(0, "xs")>>)
\* int sum(int a, int b): an instance overload of sum
M_sum2 ==
    MethodNode("sum", PUBLIC, <<"(", "I", "I", ")", "I">>, <<>>,
               <<LV(0, "this"), LV(1, "a"), LV(2, "b")>>)
\* int cat(int n, String... parts), compiled without debug information
M_cat ==
    MethodNode("cat", PUBLIC + ACC_VARARGS,
               <<"(", "I", "[">> \o LType(I3("java", "lang", "String")) \o <<")", "I">>,
               <<>>, <<>>)
\* static <T> void pick(T a)
M_pick ==
    MethodNode("pick", PUBLIC_STATIC, <<"(">> \o ObjectDesc \o <<")", "V">>,
               <<"<">> \o Formal("T", ObjectDesc) \o <<">", "(">> \o TVar("T")
               \o <<")", "V">>,
               <<LV(0, "a")>>)
\* void put(int i)
M_put ==
    MethodNode("put", PUBLIC, <<"(", "I", ")", "V">>, <<>>, <<LV(0, "this"), LV(1, "i")>>)
\* void put(long l), with a generic signature the parser cannot read
M_putBad ==
    MethodNode("put", PUBLIC, <<"(", "J", ")", "V">>, <<"(", "?", ")", "V">>, <<>>)
\* K get(): uses the class variable K
M_get ==
    MethodNode("get", PUBLIC, <<"(", ")">> \o ObjectDesc, <<"(", ")">> \o TVar("K"), <<>>)
\* void set(int self): a parameter whose name in the debug information is self
M_self ==
    MethodNode("set", PUBLIC, <<"(", "I", ")", "V">>, <<>>, <<LV(0, "this"), LV(1, "self")>>)
\* void print()
M_print == MethodNode("print", PUBLIC, <<"(", ")", "V">>, <<>>, <<>>)
\* constructors
M_init == MethodNode("<init>", PUBLIC, <<"(", ")", "V">>, <<>>, <<>>)
M_initInt == MethodNode("<init>", PUBLIC, <<"(", "I", ")", "V">>, <<>>, <<>>)
M_initBad ==
    MethodNode("<init>", PUBLIC, <<"(", "J", ")", "V">>, <<"(", "?", ")", "V">>, <<>>)

MethodPool ==
    <<M_id, M_first, M_sum, M_sum2, M_cat, M_pick, M_put, M_putBad, M_get, M_print, M_self,
      M_init, M_initInt, M_initBad>>

P(name) == I2("p", name)

\* class A { public B x; public static int y; <T> T id(T); static int sum(int...) }
C_A ==
    ClassNode(P("A"), PUBLIC, <<>>, I3("java", "lang", "Object"), <<>>,
              <<FieldNode("x", PUBLIC, LType(P("B")), <<>>),
                FieldNode("y", PUBLIC_STATIC, <<"I">>, <<>>)>>,
              <<M_init, M_id, M_sum>>, <<>>)
\* class B<T> { public T t; <T> T id(T) }
C_B ==
    ClassNode(P("B"), PUBLIC, <<"<">> \o Formal("T", ObjectDesc) \o <<">">> \o ObjectDesc,
              I3("java", "lang", "Object"), <<>>,
              <<FieldNode("t", PUBLIC, ObjectDesc, TVar("T"))>>, <<M_id>>, <<>>)
\* class C extends A implements Runnable {}
C_C ==
    ClassNode(P("C"), PUBLIC, <<>>, P("A"), <<I3("java", "lang", "Runnable")>>,
              <<>>, <<>>, <<>>)
\* class D extends S implements Comparable { public Missing m; }
C_D ==
    ClassNode(P("D"), PUBLIC, <<>>, P("S"), <<I3("java", "lang", "Comparable")>>,
              <<FieldNode("m", PUBLIC, LType(P("Missing")), <<>>)>>, <<>>, <<>>)
\* a synthetic top-level class
C_S ==
    ClassNode(P("S"), PUBLIC + ACC_SYNTHETIC, <<>>, I3("java", "lang", "Object"), <<>>,
              <<>>, <<M_init>>, <<>>)
\* a class whose generic signature the parser cannot read
C_Bad ==
    ClassNode(P("Bad"), PUBLIC, <<"<", "T", ":", "?", ">">> \o ObjectDesc,
              I3("java", "lang", "Object"), <<>>, <<>>, <<M_init>>, <<>>)
\* class E: one readable and one unreadable member of each kind
C_E ==
    ClassNode(P("E"), PUBLIC, <<>>, I3("java", "lang", "Object"), <<>>,
              <<FieldNode("f", PUBLIC, <<"I">>, <<>>),
                FieldNode("g", PUBLIC, <<"J">>, <<"?">>)>>,
              <<M_init, M_initBad, M_put, M_putBad, M_print>>, <<>>)
\* class F implements java.util.Map.Entry {}
C_F ==
    ClassNode(P("F"), PUBLIC, <<>>, I3("java", "lang", "Object"),
              <<<<"java", "/", "util", "/", "Map", "$", "Entry">>>>, <<FieldNode("b", PUBLIC, LType(P("Bad")), <<>>)>>,
              <<>>, <<>>)
\* class G extends Map.Entry {}
C_G == ClassNode(P("G"), PUBLIC, <<>>, <<"p", "/", "Map", "$", "Entry">>, <<>>, <<>>, <<>>, <<>>)

EntryName == <<"p", "/", "Map", "$", "Entry">>
EntryInner == InnerClassNode(EntryName, P("Map"), "Entry", PUBLIC)
NodeName == <<"p", "/", "Map", "$", "Node">>
NodeInner == InnerClassNode(NodeName, P("Map"), "Node", PUBLIC_STATIC)
\* class Map<K extends Enum<K>, V> { public class Entry<E> { public K k; }
\*                                   public static class Node<E> { public K k; } }
C_Map ==
    ClassNode(P("Map"), PUBLIC,
              <<"<">> \o Formal("K", LGeneric(I3("java", "lang", "Enum"), TVar("K")))
              \o Formal("V", ObjectDesc) \o <<">">> \o ObjectDesc,
              I3("java", "lang", "Object"), <<>>, <<>>, <<>>, <<EntryInner, NodeInner>>)
C_MapEntry ==
    ClassNode(EntryName, PUBLIC,
              <<"<">> \o Formal("E", ObjectDesc) \o <<">">> \o ObjectDesc,
              I3("java", "lang", "Object"), <<>>,
              <<FieldNode("k", PUBLIC, ObjectDesc, TVar("K"))>>, <<>>, <<EntryInner>>)
\* the static nested class: its signature names the K of Map all the same
C_MapNode ==
    ClassNode(NodeName, PUBLIC,
              <<"<">> \o Formal("E", ObjectDesc) \o <<">">> \o ObjectDesc,
              I3("java", "lang", "Object"), <<>>,
              <<FieldNode("k", PUBLIC, ObjectDesc, TVar("K"))>>, <<>>, <<NodeInner>>)

ItemName == <<"p", "/", "Box", "$", "Item">>
ItemInner == InnerClassNode(ItemName, P("Box"), "Item", PUBLIC)
\* <K> K same(K a, K b): a method variable with the name of the class variable
M_same ==
    MethodNode("same", PUBLIC,
               <<"(">> \o ObjectDesc \o ObjectDesc \o <<")">> \o ObjectDesc,
               <<"<">> \o Formal("K", ObjectDesc) \o <<">", "(">> \o TVar("K") \o TVar("K")
               \o <<")">> \o TVar("K"),
               <<>>)
\* void two(int arg2, int b), whose table names only the first parameter
M_two ==
    MethodNode("two", PUBLIC, <<"(", "I", "I", ")", "V">>, <<>>,
               <<LV(0, "this"), LV(1, "arg2")>>)
\* static void res(int print, int print_)
M_res ==
    MethodNode("res", PUBLIC_STATIC, <<"(", "I", "I", ")", "V">>, <<>>,
               <<LV(0, "print"), LV(1, "print_")>>)
\* class Box<K> { <K> K same(K a, K b); void two(int arg2, int b);
\*                static void res(int print, int print_);
\*                public class Item<K> { public K k; } }
C_Box ==
    ClassNode(P("Box"), PUBLIC, <<"<">> \o Formal("K", ObjectDesc) \o <<">">> \o ObjectDesc,
              I3("java", "lang", "Object"), <<>>, <<>>, <<M_same, M_two, M_res>>,
              <<ItemInner>>)
C_BoxItem ==
    ClassNode(ItemName, PUBLIC, <<"<">> \o Formal("K", ObjectDesc) \o <<">">> \o ObjectDesc,
              I3("java", "lang", "Object"), <<>>,
              <<FieldNode("k", PUBLIC, ObjectDesc, TVar("K"))>>, <<>>, <<ItemInner>>)

\* a class whose InnerClasses attribute names the class itself as its own inner class
C_Loop ==
    ClassNode(P("Loop"), PUBLIC, <<>>, I3("java", "lang", "Object"), <<>>, <<>>, <<>>,
              <<InnerClassNode(P("Loop"), P("Loop"), "Loop", PUBLIC_STATIC)>>)
PartName == <<"p", "/", "Ring", "$", "Part">>
PartInner == InnerClassNode(PartName, P("Ring"), "Part", PUBLIC_STATIC)
\* class Ring { public static class Part {} }, where the InnerClasses attribute of
\* Part names Ring as an inner class of Part
C_Ring ==
    ClassNode(P("Ring"), PUBLIC, <<>>, I3("java", "lang", "Object"), <<>>, <<>>, <<>>,
              <<PartInner>>)
C_RingPart ==
    ClassNode(PartName, PUBLIC, <<>>, I3("java", "lang", "Object"), <<>>, <<>>, <<>>,
              <<PartInner, InnerClassNode(P("Ring"), PartName, "Ring", PUBLIC_STATIC)>>)

\* java.lang.Throwable and java.lang.Object
C_Throwable ==
    ClassNode(I3("java", "lang", "Throwable"), PUBLIC, <<>>, I3("java", "lang", "Object"),
              <<I3("java", "io", "Serializable")>>, <<>>, <<M_init>>, <<>>)
C_Object ==
    ClassNode(I3("java", "lang", "Object"), PUBLIC, <<>>, <<>>, <<>>, <<>>, <<M_init>>, <<>>)

ClassPool ==
    <<C_A, C_B, C_C, C_D, C_S, C_Bad, C_E, C_F, C_G, C_Map, C_MapEntry, C_Throwable,
      C_Object>>

\* class V<K>, with the methods ms
C_V(ms) ==
    ClassNode(P("V"), PUBLIC, <<"<">> \o Formal("K", ObjectDesc) \o <<">">> \o ObjectDesc,
              I3("java", "lang", "Object"), <<>>, <<>>, ms, <<>>)

(***************************************************************************)
(* main.py: _process_package, one step per top-level class.                *)
(***************************************************************************)
\* Path(f).stem
StemOf(class_file) ==
    LET file_name == AfterLast(class_file, "/")
    IN IF file_name # <<>> /\ file_name[Len(file_name)] = ".class"
       THEN SubSeq(file_name, 1, Len(file_name) - 1)
       ELSE file_name

\* class_file.removesuffix(".class")
RemoveSuffix(class_file) ==
    IF class_file # <<>> /\ class_file[Len(class_file)] = ".class"
    THEN SubSeq(class_file, 1, Len(class_file) - 1)
    ELSE class_file

\* [f for f in class_files if "$" not in Path(f).stem]
TopLevelFiles(files) == SelectSeq(files, LAMBDA f : "$" \notin Range(StemOf(f)))

RECURSIVE InsertSorted(_, _)
InsertSorted(f, sorted) ==
    IF sorted = <<>> THEN <<f>>
    ELSE IF TokensLess(f, Head(sorted)) THEN <<f>> \o sorted
    ELSE <<Head(sorted)>> \o InsertSorted(f, Tail(sorted))

RECURSIVE SortedFiles(_)
\* sorted(top_level_files)
SortedFiles(files) ==
    IF files = <<>> THEN <<>>
    ELSE InsertSorted(files[Len(files)], SortedFiles(SubSeq(files, 1, Len(files) - 1)))

NoFile == [written |-> FALSE, lines |-> <<>>]
NoParent == [some |-> FALSE, tvs |-> <<>>]
EmptyMap == [x \in {} |-> x]

\* d[k] = v on a dict
Put(d, k, v) == [x \in DOMAIN d \cup {k} |-> IF x = k THEN v ELSE d[x]]

\* the declarations add_chaquopy_bindings_to_java_package adds to the java package
ChaquopyBindingImports == {"import typing"}
ChaquopyBindingCode == <<Line("bindings", "# chaquopy bindings")>>

\* what the loop body gets for the class file at the head of files: the stub, or the
\* exception
StubOf(files, data, done) ==
    LET key == RemoveSuffix(Head(files))
    IN IF key \in DOMAIN data
       THEN Call("convert_java_class_to_python_stub", <<data[key], data, done, NoParent, 1>>)
       ELSE RaisedStub(done)

\* the stub of the class at the head of todo
HeadStub == StubOf(todo, package_class_data, classes_done)

\* output_dir / Path(package_dir) / "__init__.pyi", relative to output_dir; the
\* package directory "." is output_dir itself
OutputFile_Flat(dir) == <<"__init__.pyi">>

OutputFile(dir) ==
    IF dir = <<".">> THEN <<"__init__.pyi">> ELSE dir \o <<"/", "__init__.pyi">>

\* output_file.open("w") and the writes: the file holds the lines, whatever it held
WriteFile_Append(tree, path, lines) ==
    IF path \in DOMAIN tree THEN Put(tree, path, tree[path] \o lines) ELSE Put(tree, path, lines)

WriteFile(tree, path, lines) == Put(tree, path, lines)

\* the lines written to __init__.pyi
FileLines(imports, code) ==
    LET sorted == SortedStrings(imports)
    IN [i \in DOMAIN sorted |-> Line("import", sorted[i])] \o <<BlankLine, BlankLine>>
       \o code

\* the call has returned or raised: its locals are gone
Returned ==
    /\ pc' = "idle"
    /\ package_dir' = <<>>
    /\ class_files' = <<>>
    /\ package_class_data' = EmptyMap
    /\ todo' = <<>>
    /\ classes_done' = {}
    /\ classes_used' = {}
    /\ combined_imports' = {}
    /\ combined_code' = <<>>
    /\ skipped' = {}
    /\ out_file' = NoFile

\* the call: everything before the loop
ProcessPackage(dir, files, data) ==
    /\ pc' = "convert"
    /\ package_dir' = dir
    /\ class_files' = files
    /\ package_class_data' = data
    /\ todo' = SortedFiles(TopLevelFiles(files))
    /\ classes_done' = {Join(StemOf(f)) : f \in Range(TopLevelFiles(files))}
    /\ classes_used' = {}
    /\ combined_imports' = {}
    /\ combined_code' = <<>>
    /\ skipped' = {}
    /\ out_file' = NoFile

\* the effect of one iteration of the loop, given what the conversion returned: the
\* stub is appended, or the exception is logged and the class skipped
LoopStep(stub) ==
    /\ combined_imports' = IF stub.ok THEN combined_imports \cup Range(stub.imports)
                           ELSE combined_imports
    /\ combined_code' = IF stub.ok THEN combined_code \o stub.type_vars \o stub.code
                        ELSE combined_code
    /\ classes_done' = stub.done
    /\ classes_used' = classes_used \cup stub.used
    /\ skipped' = IF stub.ok THEN skipped ELSE skipped \cup {Head(todo)}

\* one iteration of the loop over sorted(top_level_files)
ConvertClass ==
    /\ pc = "convert"
    /\ todo # <<>>
    /\ LoopStep(HeadStub)
    /\ todo' = Tail(todo)
    /\ UNCHANGED <<pc, package_dir, class_files, package_class_data, out_file, driverVars>>

\* after the loop: the bindings of the java package, then the file
WritePackage ==
    /\ pc = "convert"
    /\ todo = <<>>
    /\ package_dir \notin unwritable
    /\ LET is_java == package_dir = <<"java">>
           imports == IF is_java THEN combined_imports \cup ChaquopyBindingImports
                      ELSE combined_imports
           code == IF is_java THEN combined_code \o ChaquopyBindingCode ELSE combined_code
       IN /\ combined_imports' = imports
          /\ combined_code' = code
          /\ out_file' = [written |-> TRUE, lines |-> FileLines(imports, code)]
          /\ out_tree' = WriteFile(out_tree, OutputFile(package_dir), FileLines(imports, code))
    /\ writes' = writes \cup {[task |-> package_dir, path |-> OutputFile(package_dir)]}
    /\ pc' = "written"
    /\ UNCHANGED <<package_dir, class_files, package_class_data, todo, classes_done,
                   classes_used, skipped, callVars, tasks, w2>>

\* after the loop, where mkdir or open raises OSError: the call ends with the exception
\* and no file
WriteFails ==
    /\ pc = "convert"
    /\ todo = <<>>
    /\ package_dir \in unwritable
    /\ LET is_java == package_dir = <<"java">>
       IN /\ combined_imports' = IF is_java THEN combined_imports \cup ChaquopyBindingImports
                                 ELSE combined_imports
          /\ combined_code' = IF is_java THEN combined_code \o ChaquopyBindingCode
                              ELSE combined_code
    /\ pc' = "failed"
    /\ UNCHANGED <<package_dir, class_files, package_class_data, todo, classes_done,
                   classes_used, skipped, out_file, driverVars>>

(***************************************************************************)
(* main.py: convert_to_python_stubs.                                       *)
(*                                                                          *)
(* An input path is its suffix and what lies behind it: the entries of an  *)
(* archive in namelist order, or the files below a directory.  The content *)
(* of a class file is the ClassNode ASM reads from it, the content of      *)
(* classes.jar is an archive.  The output directory is out_tree: the path  *)
(* of a package directory -> the lines of its __init__.pyi.                *)
(***************************************************************************)
MaxInputs == 2      \* input paths of one call

Entry(name, data) == [name |-> name, data |-> data]
\* a file: an archive and its entries
InputPath(name, suffix, entries) ==
    [name |-> name, suffix |-> suffix, is_dir |-> FALSE, entries |-> entries]
\* a directory and the files below it
InputDir(name, suffix, entries) ==
    [name |-> name, suffix |-> suffix, is_dir |-> TRUE, entries |-> entries]

\* suffix.lower()
Lower(suffix) ==
    IF suffix = ".JAR" THEN ".jar" ELSE IF suffix = ".AAR" THEN ".aar" ELSE suffix

\* f.endswith(".class"), and the glob "*.class"
EndsWithClass(f) == f # <<>> /\ f[Len(f)] = ".class"

\* str(Path(class_file).parent)
ParentOf(class_file) ==
    IF "/" \in Range(class_file) THEN BeforeLast(class_file, "/") ELSE <<".">>

OpenFail == [ok |-> FALSE, entries |-> <<>>]

\* _open_jar_or_aar_from_file: the archive whose entries are read; ok is FALSE where it
\* raises ValueError
open_jar_or_aar_from_file(file_path) ==
    IF Lower(file_path.suffix) = ".jar" THEN [ok |-> TRUE, entries |-> file_path.entries]
    ELSE IF Lower(file_path.suffix) = ".aar"
    THEN IF \E i \in DOMAIN file_path.entries : file_path.entries[i].name = <<"classes.jar">>
         THEN [ok |-> TRUE,
               entries |-> file_path.entries[CHOOSE i \in DOMAIN file_path.entries :
                               file_path.entries[i].name = <<"classes.jar">>].data]
         ELSE OpenFail
    ELSE OpenFail

\* d.get(k, default)
Get(d, k, default) == IF k \in DOMAIN d THEN d[k] ELSE default

RECURSIVE CollectLoop(_, _, _)
\* the loop of _collect_packages_from_entries
CollectLoop(entries, pkgs, class_data) ==
    IF entries = <<>> THEN [packages |-> pkgs, class_data |-> class_data]
    ELSE CollectLoop(Tail(entries),
             Put(pkgs, ParentOf(Head(entries).name),
                 Append(Get(pkgs, ParentOf(Head(entries).name), <<>>), Head(entries).name)),
             Put(class_data, ParentOf(Head(entries).name),
                 Put(Get(class_data, ParentOf(Head(entries).name), EmptyMap),
                     RemoveSuffix(Head(entries).name), Head(entries).data)))

\* _collect_packages_from_entries
collect_packages_from_entries(entries) == CollectLoop(entries, EmptyMap, EmptyMap)

RECURSIVE SortedEntries(_)
\* sorted(input_path.rglob("*.class")), by relative path
SortedEntries(entries) ==
    IF entries = <<>> THEN <<>>
    ELSE LET rest == SortedEntries(SubSeq(entries, 1, Len(entries) - 1))
             k == Cardinality({i \in DOMAIN rest :
                                  ~TokensLess(entries[Len(entries)].name, rest[i].name)})
         IN SubSeq(rest, 1, k) \o <<entries[Len(entries)]>> \o SubSeq(rest, k + 1, Len(rest))

\* input_path.rglob("*.class"): nothing where input_path is no directory
Rglob(input_path) ==
    IF input_path.is_dir THEN SelectSeq(input_path.entries, LAMBDA e : EndsWithClass(e.name))
    ELSE <<>>

\* the (class_file, bytes) pairs one input yields; ok is FALSE where opening it raises
ReadEntries(input_path) ==
    IF Lower(input_path.suffix) \in {".jar", ".aar"}
    THEN IF open_jar_or_aar_from_file(input_path).ok
         THEN [ok |-> TRUE,
               entries |-> SelectSeq(open_jar_or_aar_from_file(input_path).entries,
                                     LAMBDA e : EndsWithClass(e.name))]
         ELSE OpenFail
    ELSE [ok |-> TRUE, entries |-> SortedEntries(Rglob(input_path))]

\* packages[package_dir] = class_files, for every package of the new input
Overwritten(old, new) ==
    [d \in DOMAIN old \cup DOMAIN new |-> IF d \in DOMAIN new THEN new[d] ELSE old[d]]

\* any(p.startswith("java/") for p in packages)
HasJavaSubPackage(pkgs) == \E d \in DOMAIN pkgs : Len(d) >= 2 /\ d[1] = "java" /\ d[2] = "/"

\* packages.setdefault("java", default)
WithJava(d, default) ==
    IF <<"java">> \in DOMAIN d THEN d ELSE Put(d, <<"java">>, default)

\* the call, up to the loop over the inputs: the depth check
ConvertToPythonStubs(paths, depth, clear, tree, broken) ==
    /\ dpc \in {"idle", "done"}
    /\ input_paths' = paths
    /\ output_depth' = depth
    /\ clear_output_dir' = clear
    /\ out_tree' = tree
    /\ start_tree' = tree
    /\ unwritable' = broken
    /\ packages' = EmptyMap
    /\ all_class_data' = EmptyMap
    /\ loaded' = <<>>
    /\ tasks' = EmptyMap
    /\ writes' = {}
    /\ cleared' = 0
    /\ IF depth < 3
       THEN raised' = "ValueError" /\ dpc' = "raised"
       ELSE raised' = "none" /\ dpc' = "reading"
    /\ UNCHANGED <<stubVars, w2>>

\* one iteration of the loop over input_paths
ReadInput ==
    /\ dpc = "reading"
    /\ Len(loaded) < Len(input_paths)
    /\ LET input_path == input_paths[Len(loaded) + 1]
       IN IF ~ReadEntries(input_path).ok
          THEN /\ raised' = "ValueError"
               /\ dpc' = "raised"
               /\ UNCHANGED <<packages, all_class_data, loaded>>
          ELSE /\ packages' = Overwritten(packages,
                      collect_packages_from_entries(ReadEntries(input_path).entries).packages)
               /\ all_class_data' = Overwritten(all_class_data,
                      collect_packages_from_entries(ReadEntries(input_path).entries).class_data)
               /\ loaded' = Append(loaded, input_path)
               /\ UNCHANGED <<raised, dpc>>
    /\ UNCHANGED <<stubVars, input_paths, output_depth, clear_output_dir, out_tree, tasks,
                   w2, writes, cleared, start_tree, unwritable, first, translated, maven>>

\* after the loop: clear the output directory, add the java package, submit one task
\* for each package
SubmitPackages ==
    /\ dpc = "reading"
    /\ Len(loaded) = Len(input_paths)
    /\ out_tree' = IF clear_output_dir THEN EmptyMap ELSE out_tree
    /\ cleared' = IF clear_output_dir THEN cleared + 1 ELSE cleared
    /\ packages' = IF HasJavaSubPackage(packages) THEN WithJava(packages, <<>>) ELSE packages
    /\ all_class_data' = IF HasJavaSubPackage(packages) THEN WithJava(all_class_data, EmptyMap)
                         ELSE all_class_data
    /\ tasks' = [d \in DOMAIN packages' |-> "pending"]
    /\ dpc' = IF DOMAIN packages' = {} THEN "done" ELSE "running"
    /\ UNCHANGED <<stubVars, input_paths, output_depth, clear_output_dir, loaded, raised,
                   w2, writes, start_tree, unwritable, first, translated, maven>>

\* a worker process takes up a submitted task
RunTask ==
    /\ dpc = "running"
    /\ pc = "idle"
    /\ \E d \in DOMAIN tasks :
          /\ tasks[d] = "pending"
          /\ ProcessPackage(d, packages[d], all_class_data[d])
          /\ tasks' = [tasks EXCEPT ![d] = "running"]
    /\ UNCHANGED <<callVars, out_tree, w2, writes>>

\* the state of a future once its call has returned or raised
Outcome(worker_pc) == IF worker_pc = "failed" THEN "failed" ELSE "done"

\* every future but that of package d has completed
LastFuture_OrFailed(d) ==
    \/ \A e \in DOMAIN tasks : e = d \/ tasks[e] \in {"done", "failed"}
    \/ d \in unwritable

LastFuture(d) == \A e \in DOMAIN tasks : e = d \/ tasks[e] \in {"done", "failed"}

\* as_completed hands back the future of the task, its exception is logged; the pool is
\* left after the last one
FutureDone ==
    /\ dpc = "running"
    /\ pc \in {"written", "failed"}
    /\ Returned
    /\ tasks' = [tasks EXCEPT ![package_dir] = Outcome(pc)]
    /\ dpc' = IF LastFuture(package_dir) THEN "done" ELSE "running"
    /\ UNCHANGED <<input_paths, output_depth, clear_output_dir, packages, all_class_data,
                   loaded, raised, cleared, start_tree, unwritable, first, translated, maven, out_tree,
                   w2,
                   writes>>

(***************************************************************************)
(* The second worker process of the pool runs _process_package on its own  *)
(* locals, the record w2.                                                   *)
(***************************************************************************)
IdleWorker ==
    [pc |-> "idle", package_dir |-> <<>>, package_class_data |-> EmptyMap, todo |-> <<>>,
     classes_done |-> {}, combined_imports |-> {}, combined_code |-> <<>>]

\* the call: everything before the loop
RunTask2 ==
    /\ dpc = "running"
    /\ w2.pc = "idle"
    /\ pc # "idle"        \* the workers are alike: w2 is the one that starts second
    /\ \E d \in DOMAIN tasks :
          /\ tasks[d] = "pending"
          /\ w2' = [pc |-> "convert", package_dir |-> d,
                    package_class_data |-> all_class_data[d],
                    todo |-> SortedFiles(TopLevelFiles(packages[d])),
                    classes_done |-> {Join(StemOf(f)) : f \in Range(TopLevelFiles(packages[d]))},
                    combined_imports |-> {}, combined_code |-> <<>>]
          /\ tasks' = [tasks EXCEPT ![d] = "running"]
    /\ UNCHANGED <<stubVars, callVars, out_tree, writes>>

\* the effect of one iteration of the loop on the locals w
LoopStep2(w, stub) ==
    [w EXCEPT !.combined_imports = IF stub.ok THEN @ \cup Range(stub.imports) ELSE @,
              !.combined_code = IF stub.ok THEN @ \o stub.type_vars \o stub.code ELSE @,
              !.classes_done = stub.done,
              !.todo = Tail(@)]

\* one iteration of the loop over sorted(top_level_files)
ConvertClass2 ==
    /\ w2.pc = "convert"
    /\ w2.todo # <<>>
    /\ w2' = LoopStep2(w2, StubOf(w2.todo, w2.package_class_data, w2.classes_done))
    /\ UNCHANGED <<stubVars, callVars, out_tree, tasks, writes>>

\* after the loop: the bindings of the java package
WithBindings(w) ==
    IF w.package_dir = <<"java">>
    THEN [w EXCEPT !.combined_imports = @ \cup ChaquopyBindingImports,
                   !.combined_code = @ \o ChaquopyBindingCode]
    ELSE w

\* after the loop: the bindings of the java package, then the file
WritePackage2 ==
    /\ w2.pc = "convert"
    /\ w2.todo = <<>>
    /\ w2.package_dir \notin unwritable
    /\ w2' = [WithBindings(w2) EXCEPT !.pc = "written"]
    /\ out_tree' = WriteFile(out_tree, OutputFile(w2.package_dir),
                             FileLines(w2'.combined_imports, w2'.combined_code))
    /\ writes' = writes \cup {[task |-> w2.package_dir, path |-> OutputFile(w2.package_dir)]}
    /\ UNCHANGED <<stubVars, callVars, tasks>>

\* after the loop, where mkdir or open raises OSError
WriteFails2 ==
    /\ w2.pc = "convert"
    /\ w2.todo = <<>>
    /\ w2.package_dir \in unwritable
    /\ w2' = [WithBindings(w2) EXCEPT !.pc = "failed"]
    /\ UNCHANGED <<stubVars, callVars, out_tree, tasks, writes>>

\* as_completed hands back the future of the second worker's task
FutureDone2 ==
    /\ dpc = "running"
    /\ w2.pc \in {"written", "failed"}
    /\ w2' = IdleWorker
    /\ tasks' = [tasks EXCEPT ![w2.package_dir] = Outcome(w2.pc)]
    /\ dpc' = IF LastFuture(w2.package_dir) THEN "done" ELSE "running"
    /\ UNCHANGED <<stubVars, input_paths, output_depth, clear_output_dir, packages,
                   all_class_data, loaded, raised, cleared, start_tree, unwritable, first,
                   translated, maven,
                   out_tree, writes>>

(***************************************************************************)
(* The packages handed to _process_package.                                *)
(***************************************************************************)
ClassFileOf(cn) == cn.name \o <<".class">>

\* package_class_data of the classes cs
DataOf(cs) ==
    [n \in {cs[i].name : i \in DOMAIN cs} |->
        cs[CHOOSE i \in DOMAIN cs : cs[i].name = n]]

PackageOf(cs, dir) ==
    [dir |-> dir, files |-> [i \in DOMAIN cs |-> ClassFileOf(cs[i])], data |-> DataOf(cs)]

\* the increasing sequences of min..max elements of 1..n
Choices(n, min, max) ==
    {s \in UNION {[1..k -> 1..n] : k \in min..max} :
        \A i, j \in DOMAIN s : i < j => s[i] < s[j]}

PoolDirs == {<<"p">>, I2("java", "lang")}

\* class files of the pool that lie in one package directory
PoolPackages ==
    {PackageOf([i \in DOMAIN s |-> ClassPool[s[i]]], dir) :
        <<s, dir>> \in {sd \in Choices(Len(ClassPool), 1, MaxClasses) \X PoolDirs :
            \A i \in DOMAIN sd[1] : BeforeLast(ClassPool[sd[1][i]].name, "/") = sd[2]}}

\* the class V with up to MaxMethods methods of the pool
MethodPackages ==
    {PackageOf(<<C_V([i \in DOMAIN s |-> MethodPool[s[i]]])>>, <<"p">>) :
        s \in Choices(Len(MethodPool), 0, MaxMethods)}

\* the same packages with the class files, and the methods of V, in the opposite order
Reversed(seq) == [i \in DOMAIN seq |-> seq[Len(seq) + 1 - i]]
ReversedPackages ==
    {PackageOf([i \in DOMAIN s |-> ClassPool[Reversed(s)[i]]], dir) :
        <<s, dir>> \in {sd \in Choices(Len(ClassPool), 2, MaxClasses) \X PoolDirs :
            \A i \in DOMAIN sd[1] : BeforeLast(ClassPool[sd[1][i]].name, "/") = sd[2]}}
    \cup {PackageOf(<<C_V([i \in DOMAIN s |-> MethodPool[Reversed(s)[i]]])>>, <<"p">>) :
            s \in Choices(Len(MethodPool), 2, MaxMethods)}

\* the synthetic java package: no class files
JavaPackage == [dir |-> <<"java">>, files |-> <<>>, data |-> EmptyMap]

\* the class Map with both its nested classes
NestedPackage == PackageOf(<<C_Map, C_MapEntry, C_MapNode>>, <<"p">>)

\* the class Box, whose inner class and whose method redeclare its type variable K
ShadowPackage == PackageOf(<<C_Box, C_BoxItem>>, <<"p">>)

\* packages whose InnerClasses attributes form a cycle
MalformedPackages ==
    {PackageOf(<<C_Loop>>, <<"p">>), PackageOf(<<C_Ring, C_RingPart>>, <<"p">>)}

PackageInputs ==
    PoolPackages \cup MethodPackages \cup ReversedPackages
    \cup {JavaPackage, NestedPackage, ShadowPackage} \cup MalformedPackages

\* a worker process takes up the call _process_package(package_dir, class_files, ...)
Worker ==
    /\ pc = "idle"
    /\ \E in \in PackageInputs : ProcessPackage(in.dir, in.files, in.data)
    /\ UNCHANGED driverVars

\* no call of the signature parser inspected yet
\* no call of resolve_maven_artifact yet
MavenIdle ==
    [pc |-> "idle", cache |-> {}, repositories |-> 0, remote |-> <<>>, ext |-> 1, base |-> 1,
     requests |-> <<>>, cached_before |-> {}, result |-> "", error |-> "", previous |-> "",
     calls |-> 0]

NoCall == [op |-> "none", ok |-> TRUE, types |-> <<>>]

\* no earlier call
NoFirst == [ran |-> FALSE, tree |-> EmptyMap, paths |-> {}, clean |-> FALSE]

Init ==
    /\ pc = "idle"
    /\ package_dir = <<>>
    /\ class_files = <<>>
    /\ package_class_data = EmptyMap
    /\ todo = <<>>
    /\ classes_done = {}
    /\ classes_used = {}
    /\ combined_imports = {}
    /\ combined_code = <<>>
    /\ skipped = {}
    /\ out_file = NoFile
    /\ dpc = "idle"
    /\ input_paths = <<>>
    /\ output_depth = 0
    /\ clear_output_dir = FALSE
    /\ packages = EmptyMap
    /\ all_class_data = EmptyMap
    /\ loaded = <<>>
    /\ raised = "none"
    /\ out_tree = EmptyMap
    /\ tasks = EmptyMap
    /\ w2 = IdleWorker
    /\ writes = {}
    /\ cleared = 0
    /\ start_tree = EmptyMap
    /\ unwritable = {}
    /\ first = NoFirst
    /\ translated = NoCall
    /\ maven = MavenIdle

Next ==
    \/ Worker
    \/ ConvertClass
    \/ WritePackage

Spec == Init /\ [][Next]_vars

(***************************************************************************)
(* The calls of convert_to_python_stubs: input paths and output            *)
(* directories.                                                             *)
(***************************************************************************)
\* another class p.B: the bytes a second input holds under the same name
C_B2 ==
    ClassNode(P("B"), PUBLIC, <<>>, I3("java", "lang", "Object"), <<>>,
              <<FieldNode("y", PUBLIC, <<"I">>, <<>>)>>, <<>>, <<>>)

\* a.jar: META-INF/MANIFEST.MF, p/A.class, p/B.class
Jar_a ==
    InputPath("a", ".jar",
              <<Entry(<<"META-INF", "/", "MANIFEST.MF">>, <<>>), Entry(ClassFileOf(C_A), C_A),
                Entry(ClassFileOf(C_B), C_B)>>)
\* b.JAR: p/B.class with other bytes, java/lang/Object.class
Jar_b ==
    InputPath("b", ".JAR",
              <<Entry(ClassFileOf(C_B2), C_B2), Entry(ClassFileOf(C_Object), C_Object)>>)
\* a directory: p/C.class, p/Bad.class and a file that is no class file
Dir_c ==
    InputDir("c", "",
              <<Entry(ClassFileOf(C_C), C_C), Entry(ClassFileOf(C_Bad), C_Bad),
                Entry(<<"p", "/", "notes.txt">>, <<>>)>>)
\* a class of the unnamed package: its class file lies at the root of the archive
C_R == ClassNode(<<"R">>, PUBLIC, <<>>, I3("java", "lang", "Object"), <<>>, <<>>, <<>>, <<>>)

\* d.aar: AndroidManifest.xml and classes.jar with p/D.class and R.class
Aar_d ==
    InputPath("d", ".aar",
              <<Entry(<<"AndroidManifest.xml">>, <<>>),
                Entry(<<"classes.jar">>,
                      <<Entry(ClassFileOf(C_D), C_D), Entry(ClassFileOf(C_R), C_R)>>)>>)
\* e.AAR: no classes.jar
Aar_e == InputPath("e", ".AAR", <<Entry(<<"AndroidManifest.xml">>, <<>>)>>)
\* f.zip: an archive of another kind, holding p/C.class
Zip_f == InputPath("f", ".zip", <<Entry(ClassFileOf(C_C), C_C)>>)

InputPool == <<Jar_a, Jar_b, Dir_c, Aar_d, Aar_e, Zip_f>>

\* input_paths: up to MaxInputs paths of the pool
InputSeqs ==
    {[i \in DOMAIN s |-> InputPool[s[i]]] :
        s \in UNION {[1..k -> DOMAIN InputPool] : k \in 0..MaxInputs}}

\* what the output directory holds before the call: nothing, or the stubs of an earlier run
StaleTree == [d \in {OutputFile(<<"old">>)} |-> <<Line("import", "import old")>>]
OutputTrees == {EmptyMap, StaleTree}

\* len(output_dir.resolve().parts) of the output directories tried
OutputDepths == {2, 3}

\* the package directories the file system refuses to create a file in
Unwritables == {{}, {<<"p">>}}

\* a call on a pool without running tasks
Call_convert_to_python_stubs ==
    /\ dpc = "idle"
    /\ \E paths \in InputSeqs, depth \in OutputDepths, clear \in BOOLEAN, tree \in OutputTrees,
          broken \in Unwritables :
          ConvertToPythonStubs(paths, depth, clear, tree, broken)
    /\ UNCHANGED <<first, translated, maven>>

\* the same call once more, on what the first one left in the output directory
Call_again ==
    /\ dpc = "done"
    /\ ~first.ran
    /\ \E clear \in BOOLEAN :
          ConvertToPythonStubs(input_paths, output_depth, clear, out_tree, unwritable)
    /\ first' = [ran |-> TRUE, tree |-> out_tree,
                 paths |-> {w.path : w \in writes},
                 clean |-> clear_output_dir \/ start_tree = EmptyMap]
    /\ UNCHANGED <<translated, maven>>

DriverNext ==
    \/ Call_convert_to_python_stubs
    \/ Call_again
    \/ ReadInput
    \/ SubmitPackages
    \/ RunTask
    \/ ConvertClass
    \/ WritePackage
    \/ WriteFails
    \/ FutureDone
    \/ RunTask2
    \/ ConvertClass2
    \/ WritePackage2
    \/ WriteFails2
    \/ FutureDone2

DriverSpec == Init /\ [][DriverNext]_vars

(***************************************************************************)
(* The calls of the signature parser: translate_type_name on a type name   *)
(* in a context, and the signature _generate_method_stub_asm builds for a  *)
(* method.                                                                  *)
(***************************************************************************)
\* the Java type names translated: every key of TYPE_NAME_TO_PRIMITIVE_MAP, the names
\* translate_type_name treats apart and two it does not
TypeNames ==
    {<<PRIMITIVES[i].java_primitive>> : i \in DOMAIN PRIMITIVES}
    \cup {PRIMITIVES[i].java_object : i \in DOMAIN PRIMITIVES}
    \cup {JAVA_LANG_STRING, JAVA_LANG_OBJECT, JAVA_LANG_CLASS, N3("java", "util", "List"),
          N2("p", "A")}

\* type_args: None, [K] and [java.lang.String]
TypeArgLists ==
    {TS(<<>>), TSA(<<>>, <<TS(<<"_V__K">>)>>), TSA(<<>>, <<TS(JAVA_LANG_STRING)>>)}

\* <<is_argument, is_array_param, is_type_arg>> as the parser passes them: for a return
\* type, a field, a bound or a wildcard bound; for a parameter; for the element of an
\* array; for a type argument
ParserContexts ==
    {<<FALSE, FALSE, FALSE>>, <<TRUE, FALSE, FALSE>>, <<FALSE, TRUE, FALSE>>,
     <<FALSE, FALSE, TRUE>>}

\* a call translate_type_name(type_name, type_args, is_argument, is_array_param,
\* is_type_arg), the one call a behaviour inspects
TranslateTypeName ==
    /\ translated = NoCall
    /\ \E type_name \in TypeNames, type_args \in TypeArgLists,
          is_argument \in BOOLEAN, is_array_param \in BOOLEAN, is_type_arg \in BOOLEAN :
          LET result == Call("translate_type_name", <<type_name, type_args, is_argument,
                                                      is_array_param, is_type_arg>>)
          IN translated' = [op |-> "translate_type_name", type_name |-> type_name,
                            type_args |-> type_args,
                            context |-> <<is_argument, is_array_param, is_type_arg>>,
                            ok |-> result.ok,
                            types |-> IF result.ok THEN <<result.ts>> ELSE <<>>]
    /\ UNCHANGED <<pipelineVars, maven>>

\* interface java.util.Map<K, V> { V get(Object key); }: the method of the whitelist
M_mapGet ==
    MethodNode("get", PUBLIC, <<"(">> \o ObjectDesc \o <<")">> \o ObjectDesc,
               <<"(">> \o ObjectDesc \o <<")">> \o TVar("V"), <<>>)

\* the classes whose methods are parsed: p.V<K> and java.util.Map<K, V>
SignatureClasses ==
    {[class_name_dotted |-> "p.V", scope_id_prefix |-> "V",
      class_type_vars |-> <<TypeVarStr("K", "_V__K", NoBound)>>],
     [class_name_dotted |-> "java.util.Map", scope_id_prefix |-> "Map",
      class_type_vars |-> <<TypeVarStr("K", "_Map__K", NoBound),
                            TypeVarStr("V", "_Map__V", NoBound)>>]}

\* static K make(): a static method that names the class variable K
M_make ==
    MethodNode("make", PUBLIC_STATIC, <<"(", ")">> \o ObjectDesc, <<"(", ")">> \o TVar("K"),
               <<>>)
\* static <T> K conv(T a, T b): its own variable T and the class variable K
M_conv ==
    MethodNode("conv", PUBLIC_STATIC,
               <<"(">> \o ObjectDesc \o ObjectDesc \o <<")">> \o ObjectDesc,
               <<"<">> \o Formal("T", ObjectDesc) \o <<">", "(">> \o TVar("T") \o TVar("T")
               \o <<")">> \o TVar("K"),
               <<>>)
\* the constructor V(K k)
M_initK ==
    MethodNode("<init>", PUBLIC, <<"(">> \o ObjectDesc \o <<")", "V">>,
               <<"(">> \o TVar("K") \o <<")", "V">>, <<>>)

\* void reuse(int x), whose slot 1 holds a local variable tmp after the parameter
M_reuse ==
    MethodNode("reuse", PUBLIC, <<"(", "I", ")", "V">>, <<>>,
               <<LV(0, "this"), LV(1, "x"), LV(1, "tmp")>>)
\* static void wide(long a, int b, double c, int d)
M_wide ==
    MethodNode("wide", PUBLIC_STATIC, <<"(", "J", "I", "D", "I", ")", "V">>, <<>>,
               <<LV(0, "a"), LV(2, "b"), LV(3, "c"), LV(5, "d")>>)
\* void part(long a, int b), whose table names only b
M_part ==
    MethodNode("part", PUBLIC, <<"(", "J", "I", ")", "V">>, <<>>,
               <<LV(0, "this"), LV(3, "b")>>)
\* void bare(int a), whose table names only this and an unnamed slot
M_bare ==
    MethodNode("bare", PUBLIC, <<"(", "I", ")", "V">>, <<>>, <<LV(1, "")>>)

SignatureMethods ==
    MethodPool \o <<M_mapGet, M_make, M_conv, M_initK, M_reuse, M_wide, M_part, M_bare>>

\* a field of type List<arg>
ListField(name, arg) ==
    FieldNode(name, PUBLIC, LType(I3("java", "util", "List")),
              LGeneric(I3("java", "util", "List"), arg))

\* fields of type List<Integer>, List<? extends Integer>, List<? super Integer>,
\* List<?>, List<String>, List<? extends String> and List<List<? extends Integer>>
WildcardFields ==
    {ListField("li", LType(I3("java", "lang", "Integer"))),
     ListField("le", <<"+">> \o LType(I3("java", "lang", "Integer"))),
     ListField("lu", <<"-">> \o LType(I3("java", "lang", "Integer"))),
     ListField("lw", <<"*">>),
     ListField("lt", LType(I3("java", "lang", "String"))),
     ListField("lx", <<"+">> \o LType(I3("java", "lang", "String"))),
     ListField("ll", LGeneric(I3("java", "util", "List"),
                              <<"+">> \o LType(I3("java", "lang", "Integer"))))}

\* fields of type K and List<K>, static and not
SignatureFields ==
    {FieldNode("s", PUBLIC_STATIC, ObjectDesc, TVar("K")),
     FieldNode("f", PUBLIC, ObjectDesc, TVar("K")),
     FieldNode("sl", PUBLIC_STATIC, LType(I3("java", "util", "List")),
               LGeneric(I3("java", "util", "List"), TVar("K"))),
     FieldNode("fl", PUBLIC, LType(I3("java", "util", "List")),
               LGeneric(I3("java", "util", "List"), TVar("K")))}
    \cup WildcardFields

\* the types of a JavaFunctionSig: of its parameters, its return type and the bounds of
\* its type variables
TypesOfSig(sig) ==
    [k \in DOMAIN sig.args |-> sig.args[k].arg_type] \o <<sig.ret_type>>
    \o [k \in DOMAIN sig.type_vars |-> sig.type_vars[k].bound.ts]

\* the method an iteration of the first loop handled and the JavaFunctionSig it gave
SignatureOf(cls, i, is_overloaded, sig) ==
    [op |-> "_generate_method_stub_asm", class_name_dotted |-> cls.class_name_dotted,
     method |-> i, is_overloaded |-> is_overloaded, ok |-> sig.ok,
     types |-> IF sig.ok THEN TypesOfSig(sig) ELSE <<>>,
     names |-> IF sig.ok THEN [k \in DOMAIN sig.args |-> sig.args[k].name] ELSE <<>>]

\* one iteration of the first loop of _generate_method_stub_asm, for a method of a class
GenerateSignature ==
    /\ translated = NoCall
    /\ \E i \in DOMAIN SignatureMethods, cls \in SignatureClasses, is_overloaded \in BOOLEAN :
          LET m == SignatureMethods[i]
              method_name_py == IF m.name = "<init>" THEN "__init__" ELSE pysafe(m.name).v
          IN translated' = SignatureOf(cls, i, is_overloaded,
                                       Call("FunctionSig", <<m, 0, method_name_py,
                                            is_overloaded, cls.class_type_vars,
                                            cls.class_name_dotted, cls.scope_id_prefix>>))
    /\ UNCHANGED <<pipelineVars, maven>>

\* the field an iteration of the "Fields" loop handled and the lines it gave
FieldOf(cls, f, lines) ==
    [op |-> "parse_field_type", ok |-> lines # <<>>,
     class_name_dotted |-> cls.class_name_dotted, field |-> f, types |-> <<>>,
     text |-> IF lines # <<>> THEN lines[1].text ELSE "",
     rendered |-> IF lines # <<>> THEN lines[1].parts[1].text ELSE ""]

\* one iteration of the "Fields" loop, for a field of a class
GenerateField ==
    /\ translated = NoCall
    /\ \E f \in SignatureFields, cls \in SignatureClasses :
          translated' = FieldOf(cls, f, Call("FieldStub", <<f, <<"q">>, {},
                                                            cls.class_type_vars>>).lines)
    /\ UNCHANGED <<pipelineVars, maven>>

\* the packages a type is rendered in
RenderPackages == {<<"p">>, N3("java", "lang", "ref"), N2("java", "lang")}

\* TypeStr values the parser gives for field types: the class p.K, a type variable K
\* that nothing declares, int, java.util.List with and without type arguments, and
\* java.lang.Object
RenderedTypes ==
    {TS(N2("p", "K")), TS(<<"K">>), TS(<<"int">>), TS(JAVA_LANG_OBJECT),
     TS(N3("java", "util", "List")),
     TSA(N3("java", "util", "List"), <<TS(JAVA_LANG_STRING)>>),
     TSA(N3("java", "util", "List"), <<TS(N2("p", "K"))>>),
     TSA(N3("java", "util", "List"), <<TS(<<"K">>)>>)}

\* two calls to_annotated_type(type_name, package_name, classes_done, types_used,
\* imports_output) in one package, with nothing done yet
RenderTypes ==
    /\ translated = NoCall
    /\ \E a \in RenderedTypes, b \in RenderedTypes, package \in RenderPackages :
          translated' = [op |-> "to_annotated_type", ok |-> TRUE, types |-> <<a, b>>,
                         package |-> package,
                         texts |-> Call("AnnotateArgs", <<<<a, b>>, package, {}>>).texts]
    /\ UNCHANGED <<pipelineVars, maven>>

\* the most parameters of a method whose type variables are eliminated
MaxParams == 2

\* the type variables of a method m: <T>, <T extends Number> and <T, U>
MethodTypeVarLists ==
    {<<TypeVarStr("T", "_m__T", NoBound)>>,
     <<TypeVarStr("T", "_m__T", Bound(TS(N3("java", "lang", "Number"))))>>,
     <<TypeVarStr("T", "_m__T", NoBound), TypeVarStr("U", "_m__U", NoBound)>>}

\* parameter and return types over them: T, U, List<T>, Map<T, List<T>> and int
MethodTypes ==
    {TS(<<"_m__T">>), TS(<<"_m__U">>), TS(<<"int">>),
     TSA(N3("java", "util", "List"), <<TS(<<"_m__T">>)>>),
     TSA(N3("java", "util", "Map"),
         <<TS(<<"_m__T">>), TSA(N3("java", "util", "List"), <<TS(<<"_m__T">>)>>)>>)}

\* what a call of _eliminate_single_use_type_vars was given and what it returned
Eliminated(method_type_vars, given, el) ==
    [op |-> "_eliminate_single_use_type_vars", ok |-> TRUE,
     types |-> el.param_types \o <<el.ret_type>>, given |-> given,
     method_type_vars |-> method_type_vars, kept |-> el.method_type_vars]

\* _eliminate_single_use_type_vars on the type variables, parameter types and return
\* type of a parsed method
EliminateTypeVars ==
    /\ translated = NoCall
    /\ \E method_type_vars \in MethodTypeVarLists, ret_type \in MethodTypes,
          param_types \in UNION {[1..n -> MethodTypes] : n \in 0..MaxParams} :
          translated' = Eliminated(method_type_vars, param_types \o <<ret_type>>,
                                   Call("eliminate_single_use_type_vars",
                                        <<method_type_vars, param_types, ret_type>>))
    /\ UNCHANGED <<pipelineVars, maven>>

TypeNext ==
    \/ TranslateTypeName
    \/ GenerateSignature
    \/ RenderTypes

TypeSpec == Init /\ [][TypeNext]_vars

\* the handling of one member of a class: a method's signature, the elimination of its
\* type variables, a field
MemberNext ==
    \/ GenerateSignature
    \/ EliminateTypeVars
    \/ GenerateField

MemberSpec == Init /\ [][MemberNext]_vars

(***************************************************************************)
(* _artifacts/maven.py: resolve_maven_artifact, for one coordinate and one *)
(* cache directory.  A step is the test of the cache for an extension or   *)
(* one download request.                                                   *)
(***************************************************************************)
\* the most repositories a call is given
MaxRepos == 2

\* the most calls for the coordinate
MaxResolves == 2

\* for ext in (".aar", ".jar")
Extensions == <<".aar", ".jar">>

\* what a repository answers to a request: the file, HTTP 404 or another HTTP error
Replies == {"200", "404", "500"}

\* where the loops stand once repository base has answered 404 for extension ext, or
\* there was none left to ask: at the next repository, at the cache test of the next
\* extension, or at the final raise
AfterNotFound(m, ext, base) ==
    IF base <= m.repositories THEN [m EXCEPT !.pc = "download", !.ext = ext, !.base = base]
    ELSE IF ext < Len(Extensions) THEN [m EXCEPT !.pc = "cache", !.ext = ext + 1, !.base = 1]
    ELSE [m EXCEPT !.pc = "raised", !.error = "FileNotFoundError"]

\* a call of resolve_maven_artifact: the first, with some cache content and some
\* repositories, or a further one after a call that returned
resolve_maven_artifact ==
    /\ \/ /\ maven.pc = "idle"
          /\ \E cache \in SUBSET {".aar", ".jar"}, n \in 0..MaxRepos :
                \E remote \in [(1..Len(Extensions)) \X (1..n) -> Replies] :
                    maven' = [pc |-> "cache", cache |-> cache, repositories |-> n,
                              remote |-> remote, ext |-> 1, base |-> 1, requests |-> <<>>,
                              cached_before |-> cache, result |-> "", error |-> "",
                              previous |-> "", calls |-> 1]
       \/ /\ maven.pc = "returned"
          /\ maven.calls < MaxResolves
          /\ maven' = [maven EXCEPT !.pc = "cache", !.ext = 1, !.base = 1,
                                    !.requests = <<>>, !.cached_before = maven.cache,
                                    !.result = "", !.previous = maven.result,
                                    !.calls = maven.calls + 1]
    /\ UNCHANGED <<pipelineVars, translated>>

\* "if local_path.exists()": the cached file is returned, else the repositories are
\* asked for this extension
LocalPathExists ==
    /\ maven.pc = "cache"
    /\ maven' = IF Extensions[maven.ext] \in maven.cache
                THEN [maven EXCEPT !.pc = "returned", !.result = Extensions[maven.ext]]
                ELSE AfterNotFound(maven, maven.ext, 1)
    /\ UNCHANGED <<pipelineVars, translated>>

\* urllib.request.urlopen(url) for the extension at the repository: the file is saved
\* and returned, a 404 moves on, another HTTP error is raised to the caller
Urlopen ==
    /\ maven.pc = "download"
    /\ LET reply == maven.remote[<<maven.ext, maven.base>>]
           asked == [maven EXCEPT !.requests = Append(@, <<maven.ext, maven.base>>)]
       IN maven' = IF reply = "200"
                   THEN [asked EXCEPT !.pc = "returned",
                                      !.cache = @ \cup {Extensions[maven.ext]},
                                      !.result = Extensions[maven.ext]]
                   ELSE IF reply = "404"
                   THEN AfterNotFound(asked, maven.ext, maven.base + 1)
                   ELSE [asked EXCEPT !.pc = "raised", !.error = "HTTPError"]
    /\ UNCHANGED <<pipelineVars, translated>>

MavenNext ==
    \/ resolve_maven_artifact
    \/ LocalPathExists
    \/ Urlopen

MavenSpec == Init /\ [][MavenNext]_vars

(***************************************************************************)
(* Properties of the stub file of a package (Spec) and of the grouping of  *)
(* the inputs (DriverSpec).                                                 *)
(***************************************************************************)
\* the lines of the stub file, once written
FileOut == out_file.lines

\* the positions of the lines of one kind
LinesOf(kind) == {i \in DOMAIN FileOut : FileOut[i].kind = kind}

\* the class whose class file is the only one of the package
OnlyClass == package_class_data[RemoveSuffix(class_files[1])]

\* the package consists of one class file, of a top-level class that converts
OneClassWritten ==
    /\ out_file.written
    /\ Len(class_files) = 1
    /\ TopLevelFiles(class_files) = class_files
    /\ RemoveSuffix(class_files[1]) \in DOMAIN package_class_data
    /\ ~HasFlag(OnlyClass.access, ACC_SYNTHETIC)
    /\ parse_class_type_params(OnlyClass.signature).ok

C2_TypeVarNamesUnique ==
    out_file.written =>
        \A i, j \in LinesOf("typevar") : i # j => FileOut[i].name # FileOut[j].name

\* C3: every type variable in the typing.Generic[...] of a class header, top-level or
\* nested, is declared by an unindented TypeVar line earlier in the same file.
C3_GenericDeclaredEarlier ==
    out_file.written =>
        \A j \in LinesOf("class") :
            \A k \in DOMAIN FileOut[j].tvs :
                \E i \in 1..(j - 1) :
                    /\ FileOut[i].kind = "typevar"
                    /\ FileOut[i].ind = 0
                    /\ FileOut[i].name = FileOut[j].tvs[k]

\* a written file with a generic nested class under a generic top-level class
C3_Witness ==
    /\ out_file.written
    /\ \E j \in LinesOf("class") : FileOut[j].ind > 0 /\ FileOut[j].tvs # <<>>
    /\ \E j \in LinesOf("class") : FileOut[j].ind = 0 /\ FileOut[j].tvs # <<>>

\* C4: the stub file of a package with class Map<K extends Enum<K>, V> declares
\* _Map__K with the bound java.lang.Enum[_Map__K], followed by the declaration of
\* _Map__V.
C4_BoundUsesMangledName ==
    (/\ out_file.written
     /\ ClassFileOf(C_Map) \in Range(class_files)
     /\ package_class_data[C_Map.name] = C_Map)
    => \E i \in LinesOf("typevar") :
          /\ FileOut[i].text
               = "_Map__K = typing.TypeVar('_Map__K', bound=java.lang.Enum[_Map__K])  # <K>"
          /\ i + 1 \in LinesOf("typevar")
          /\ FileOut[i + 1].text = "_Map__V = typing.TypeVar('_Map__V')  # <V>"

\* the positions of the regular parameters, of the "/" markers and of the *varargs
Regular(parts) == {i \in DOMAIN parts : parts[i].kind = "param" /\ ~parts[i].star}
Slashes(parts) == {i \in DOMAIN parts : parts[i].kind = "slash"}
Stars(parts) == {i \in DOMAIN parts : parts[i].star}

\* C5: an emitted parameter list with a parameter that is neither self nor *varargs has
\* exactly one "/", right before the *varargs parameter if there is one and at the end
\* otherwise; a list without such a parameter has no "/".
C5_SlashPlacement ==
    out_file.written =>
        \A i \in LinesOf("def") :
            IF Regular(FileOut[i].parts) # {}
            THEN /\ Cardinality(Slashes(FileOut[i].parts)) = 1
                 /\ \A k \in Slashes(FileOut[i].parts) :
                       IF Stars(FileOut[i].parts) # {}
                       THEN Stars(FileOut[i].parts) = {k + 1}
                       ELSE k = Len(FileOut[i].parts)
            ELSE Slashes(FileOut[i].parts) = {}

\* a written file with a "/" before a *varargs parameter, one with a "/" at the end and
\* a parameter list without "/"
C5_Witness ==
    /\ out_file.written
    /\ \E i \in LinesOf("def") :
          Regular(FileOut[i].parts) # {} /\ Stars(FileOut[i].parts) # {}
    /\ \E i \in LinesOf("def") :
          Regular(FileOut[i].parts) = {} /\ Len(FileOut[i].parts) > 0

\* C6: the *varargs parameter of an emitted signature is annotated with the element
\* type of its array, never with an array type (the varargs arrays of the modelled
\* methods have one dimension).
C6_VarargsElementType ==
    out_file.written =>
        \A i \in LinesOf("def") :
            \A k \in Stars(FileOut[i].parts) :
                /\ FileOut[i].parts[k].arg_type # JAVA_ARRAY
                /\ ~InArrayTypeMapValues(FileOut[i].parts[k].arg_type)

\* the package is class V with <T> T first(List<T> xs) among its methods
HasFirst == OneClassWritten /\ OnlyClass.name = P("V") /\ M_first \in Range(OnlyClass.methods)

\* C7 as claimed: for <T> T first(List<T> xs) no TypeVar is declared and the signature
\* reads def first(self, xs: java.util.List[java.lang.Object], /) -> java.lang.Object.
C7_FirstTypeVarEliminated ==
    HasFirst =>
        /\ \A i \in LinesOf("typevar") : FileOut[i].name # "_first__T"
        /\ \E i \in LinesOf("def") :
              FileOut[i].text
                = "def first(self, xs: java.util.List[java.lang.Object], /) -> java.lang.Object: ..."

\* C7 as amended: for <T> T first(List<T> xs) the method-level T, used twice, is kept:
\* _first__T is declared and the signature that follows uses it for the type argument
\* and for the return type.
C7_FirstTypeVarKept ==
    HasFirst =>
        \E i \in LinesOf("typevar") :
            /\ FileOut[i].text = "_first__T = typing.TypeVar('_first__T')  # <T>"
            /\ i + 1 \in LinesOf("def")
            /\ FileOut[i + 1].text
                 = "def first(self, xs: java.util.List[_first__T], /) -> _first__T: ..."

\* a written stub file of class V with the method first and another method
C7_Witness == HasFirst /\ Len(OnlyClass.methods) > 1

\* whether the parser reads the signature of a method, and the type of a field
ReadableMethod(m) ==
    parse_method_signature(m.signature, m.desc, <<>>, m.name = "<init>", "").ok
ReadableField(f) == parse_field_type(f.signature, f.desc, <<>>).ok

\* the members of a class that its stub shows, and the name a method is emitted under
ShownMethods(cn) ==
    {i \in DOMAIN cn.methods :
        IsAccessible(cn.methods[i].access) /\ ~IsSyntheticOrBridge(cn.methods[i].access)}
ShownFields(cn) ==
    {i \in DOMAIN cn.fields :
        IsAccessible(cn.fields[i].access) /\ ~HasFlag(cn.fields[i].access, ACC_SYNTHETIC)}
EmittedName(m) == IF m.name = "<init>" THEN "__init__" ELSE pysafe(m.name).v
Overloads(cn, name) == {i \in ShownMethods(cn) : EmittedName(cn.methods[i]) = name}

\* the number of lines of one kind that declare a name
Count(kind, name) == Cardinality({i \in LinesOf(kind) : FileOut[i].name = name})

\* C8 as claimed: in the stub file of a one-class package, the class is emitted, every
\* field the parser reads is emitted, and every constructor and every method overload
\* the parser reads is emitted, whatever becomes of its siblings.
C8_OnlyFailingMemberSkipped ==
    OneClassWritten =>
        /\ Count("class", DisplayNameOf(OnlyClass.name)) = 1
        /\ \A i \in ShownFields(OnlyClass) :
              ReadableField(OnlyClass.fields[i])
                  => Count("field", pysafe(OnlyClass.fields[i].name).v) = 1
        /\ \A i \in ShownMethods(OnlyClass) :
              Count("def", EmittedName(OnlyClass.methods[i]))
                  >= Cardinality({j \in Overloads(OnlyClass, EmittedName(OnlyClass.methods[i])) :
                                     ReadableMethod(OnlyClass.methods[j])})

\* C8 as amended: in the stub file of a one-class package, the class is emitted; a field
\* is emitted exactly when the parser reads its type; the constructors are emitted, all
\* of them, exactly when the parser reads every one of them; the overloads of one method
\* name are emitted, all of them, exactly when the parser reads every one of them.
C8_FailingGroupSkipped ==
    OneClassWritten =>
        /\ Count("class", DisplayNameOf(OnlyClass.name)) >= 1
        /\ \A i \in ShownFields(OnlyClass) :
              Count("field", pysafe(OnlyClass.fields[i].name).v)
                  = IF ReadableField(OnlyClass.fields[i]) THEN 1 ELSE 0
        /\ \A i \in ShownMethods(OnlyClass) :
              Count("def", EmittedName(OnlyClass.methods[i]))
                  = IF \A j \in Overloads(OnlyClass, EmittedName(OnlyClass.methods[i])) :
                          ReadableMethod(OnlyClass.methods[j])
                    THEN Cardinality(Overloads(OnlyClass, EmittedName(OnlyClass.methods[i])))
                    ELSE 0

\* a written stub file of a class with a method group that is skipped for one unreadable
\* overload, beside a method that is emitted
C8_Witness ==
    /\ OneClassWritten
    /\ \E i, j \in ShownMethods(OnlyClass) :
          /\ i # j
          /\ EmittedName(OnlyClass.methods[i]) = EmittedName(OnlyClass.methods[j])
          /\ ReadableMethod(OnlyClass.methods[i])
          /\ ~ReadableMethod(OnlyClass.methods[j])
    /\ LinesOf("def") # {}

\* the names of the classes a written stub file defines at top level
DefinedClasses == {FileOut[i].name : i \in {j \in LinesOf("class") : FileOut[j].ind = 0}}

\* the current package in dotted form
PackageDotted == Replace(package_dir, "/", ".")

\* a rendered type is a top-level class of the current package, written as a bare name
BareLocal(type_name, text) ==
    /\ "." \in Range(type_name)
    /\ BeforeLast(type_name, ".") = PackageDotted
    /\ text = Join(AfterLast(type_name, "."))

\* C9: a field annotation or a supertype that names a class of the current package is a
\* bare name only when the stub file defines that class.
C9_BareOnlyIfDefined ==
    out_file.written =>
        /\ \A i \in LinesOf("field") :
              BareLocal(FileOut[i].parts[1].arg_type, FileOut[i].parts[1].text)
                  => FileOut[i].parts[1].text \in DefinedClasses
        /\ \A i \in LinesOf("class") :
              \A k \in DOMAIN FileOut[i].supers :
                  BareLocal(FileOut[i].supers[k], FileOut[i].bases[k])
                      => FileOut[i].bases[k] \in DefinedClasses

\* the last of the inputs read that holds the class file
LastSupplier(class_file) ==
    CHOOSE i \in DOMAIN loaded :
        /\ \E e \in Range(ReadEntries(loaded[i]).entries) : e.name = class_file
        /\ \A j \in DOMAIN loaded :
              (\E e \in Range(ReadEntries(loaded[j]).entries) : e.name = class_file) => j <= i

\* the bytes an input holds for a class file
BytesIn(input_path, class_file) ==
    (CHOOSE e \in Range(ReadEntries(input_path).entries) : e.name = class_file).data

\* C10: once every input is read without error, the group of a package holds every
\* class file that any input supplied for the package, each with the bytes of the last
\* input that supplied it.
C10_LaterInputMergesIntoPackage ==
    dpc \in {"running", "done"} =>
        \A i \in DOMAIN loaded :
            \A e \in Range(ReadEntries(loaded[i]).entries) :
                /\ ParentOf(e.name) \in DOMAIN packages
                /\ e.name \in Range(packages[ParentOf(e.name)])
                /\ RemoveSuffix(e.name) \in DOMAIN all_class_data[ParentOf(e.name)]
                /\ all_class_data[ParentOf(e.name)][RemoveSuffix(e.name)]
                     = BytesIn(loaded[LastSupplier(e.name)], e.name)

\* the decorator lines that stand right before the def at line i
Decos(i) == {j \in 1..(i - 1) : \A k \in j..(i - 1) : FileOut[k].kind = "deco"}
HasDeco(i, text) == \E j \in Decos(i) : FileOut[j].text = text

\* C16: in the stub file of a one-class package, a def is preceded by an
\* @typing.overload line of its own exactly when the constructors or the methods of
\* its name are more than one; the defs of a name preceded by @staticmethod are as
\* many as the static methods of that name; every decorator line belongs to a def.
C16_OverloadDecorators ==
    OneClassWritten =>
        /\ \A i \in LinesOf("def") :
              /\ HasDeco(i, "@typing.overload")
                    <=> Cardinality(Overloads(OnlyClass, FileOut[i].name)) > 1
              /\ Cardinality({j \in Decos(i) : FileOut[j].text = "@typing.overload"}) <= 1
              /\ Cardinality({j \in Decos(i) : FileOut[j].text = "@staticmethod"}) <= 1
        /\ \A m \in ShownMethods(OnlyClass) :
              Count("def", EmittedName(OnlyClass.methods[m])) > 0 =>
                  Cardinality({i \in LinesOf("def") :
                                  /\ FileOut[i].name = EmittedName(OnlyClass.methods[m])
                                  /\ HasDeco(i, "@staticmethod")})
                  = Cardinality({j \in Overloads(OnlyClass, EmittedName(OnlyClass.methods[m])) :
                                    HasFlag(OnlyClass.methods[j].access, ACC_STATIC)})
        /\ \A j \in LinesOf("deco") : \E i \in LinesOf("def") : j \in Decos(i)

\* a written stub with an overloaded group of a static and an instance method: one def
\* carries both decorators, the other only @typing.overload
C16_Witness ==
    /\ OneClassWritten
    /\ \E i, j \in LinesOf("def") :
          /\ i # j
          /\ FileOut[i].name = FileOut[j].name
          /\ HasDeco(i, "@typing.overload") /\ HasDeco(i, "@staticmethod")
          /\ HasDeco(j, "@typing.overload") /\ ~HasDeco(j, "@staticmethod")

\* the module part P.Q of a dotted name P.Q.R, R being the class with its nested classes
ModuleOf(name) == BeforeLast(name, ".")

\* the stub file has the line "import <module>"
HasImport(module) ==
    \E i \in LinesOf("import") : FileOut[i].text = "import " \o Join(module)

\* the dotted names of the types rendered in the stub file: those of the annotations,
\* TypeVar bounds and supertypes with their type arguments, and typing.Generic where
\* a class line has type parameters
RenderedNames ==
    classes_used
    \cup UNION {{pysafe_package_path(FileOut[i].parts[k].arg_type) :
                    k \in DOMAIN FileOut[i].parts} :
                       i \in LinesOf("def") \cup LinesOf("field")}
    \cup {<<"typing", ".", "Generic">> : i \in {j \in LinesOf("class") : FileOut[j].tvs # <<>>}}

\* C17: every dotted name rendered in a type of the written stub file has the line
\* "import <module>" of its module among the import lines of that file, unless the
\* module is builtins or the current package.
C17_RenderedNamesImported ==
    out_file.written =>
        \A name \in RenderedNames :
            \/ "." \notin Range(name)
            \/ name = TYPING_UNION
            \/ ModuleOf(name) = <<"builtins">>
            \/ ModuleOf(name) = pysafe_package_path(PackageDotted)
            \/ HasImport(ModuleOf(name))

\* a written stub file renders a class of another package that is nested in its
\* outer class, and one of a package whose name is mangled
C17_Witness ==
    /\ out_file.written
    /\ \E name \in classes_used :
          /\ "$" \in Range(name)
          /\ ModuleOf(name) # pysafe_package_path(PackageDotted)
          /\ HasImport(ModuleOf(name))

(***************************************************************************)
(* Properties of the types the signature parser gives (TypeSpec).          *)
(***************************************************************************)
RECURSIVE SubTypes(_)
\* a TypeStr with the TypeStr values among its type arguments, at every depth
SubTypes(ts) == {ts} \cup UNION {SubTypes(ts.args[i]) : i \in DOMAIN ts.args}

\* the TypeStr values the inspected call gave, where it is a call the pipeline makes:
\* translate_type_name in a context the parser passes, or the signature of a method
ProducedTypes ==
    IF translated.op = "translate_type_name" /\ translated.context \notin ParserContexts
    THEN {}
    ELSE UNION {SubTypes(translated.types[k]) : k \in DOMAIN translated.types}

\* C18: every TypeStr named typing.Union that translate_type_name gives in a context of
\* the parser, or that stands in the signature built for a method (after the
\* substitution of type variables and the widening of the return type), has two or
\* more alternatives, no two of them the same TypeStr and no two rendered as the
\* same text.
C18_UnionsHaveDistinctAlternatives ==
    \A t \in ProducedTypes :
        t.name = TYPING_UNION =>
            /\ Len(t.args) >= 2
            /\ \A i, j \in DOMAIN t.args : i # j => t.args[i] # t.args[j]
            /\ \A package \in RenderPackages :
                  LET texts == Call("AnnotateArgs", <<t.args, package, {}>>).texts
                  IN \A i, j \in DOMAIN texts : i # j => texts[i] # texts[j]

\* the signature of java.util.Map.get(Object): the parameter is a union of five
\* alternatives and the return type is widened to V | None
C18_Witness ==
    /\ translated.op = "_generate_method_stub_asm"
    /\ translated.ok
    /\ TSA(TYPING_UNION, <<TS(<<"_Map__V">>), TS(<<"None">>)>>) \in Range(translated.types)
    /\ \E t \in Range(translated.types) : t.name = TYPING_UNION /\ Len(t.args) = 5

\* the four contexts of the translation table
DefaultContext == <<FALSE, FALSE, FALSE>>
ArgumentContext == <<TRUE, FALSE, FALSE>>
ArrayContext == <<FALSE, TRUE, FALSE>>
TypeArgContext == <<FALSE, FALSE, TRUE>>

\* the row of the translation table for a type name, its type arguments and a context
TableEntry(type_name, type_args, context) ==
    LET p == TYPE_NAME_TO_PRIMITIVE_MAP(type_name)
    IN IF InPrimitiveMap(type_name)
       THEN CASE context = DefaultContext -> TS(<<p.python_type>>)
              [] context = ArrayContext -> TS(p.python_primitive)
              [] context = TypeArgContext -> TS(p.java_object)
              [] context = ArgumentContext ->
                    TSA(TYPING_UNION,
                        <<TS(<<p.python_type>>), TS(p.python_primitive), TS(p.java_object)>>)
       ELSE IF type_name = JAVA_LANG_STRING
       THEN CASE context = DefaultContext -> TS(<<"str">>)
              [] context = ArgumentContext ->
                    TSA(TYPING_UNION, <<TS(<<"str">>), TS(JAVA_LANG_STRING)>>)
              [] context \in {ArrayContext, TypeArgContext} -> TS(JAVA_LANG_STRING)
       ELSE IF type_name = JAVA_LANG_OBJECT
       THEN IF context = ArgumentContext
            THEN TSA(TYPING_UNION, <<TS(JAVA_LANG_OBJECT), TS(<<"int">>), TS(<<"bool">>),
                                     TS(<<"float">>), TS(<<"str">>)>>)
            ELSE TS(JAVA_LANG_OBJECT)
       ELSE IF type_name = JAVA_LANG_CLASS
       THEN [name |-> N2("typing", "Type"), hasArgs |-> type_args.hasArgs,
             args |-> type_args.args]
       ELSE [name |-> type_name, hasArgs |-> type_args.hasArgs, args |-> type_args.args]

OuterClasses == {cn \in Range(package_class_data) : "$" \notin Range(cn.name)}
NestedOf(o) ==
    {k \in DOMAIN o.innerClasses :
        /\ o.innerClasses[k].outerName = o.name
        /\ o.innerClasses[k].name \in DOMAIN package_class_data}

\* the Java names of the type variables a class declares
DeclaredNames(cn) ==
    LET params == parse_class_type_params(cn.signature).params
    IN {params[i].name : i \in DOMAIN params}

\* line j is the header, one level down, of the nested class named inner_name inside
\* the top-level class named outer_name
NestedHeader(j, outer_name, inner_name) ==
    /\ FileOut[j].kind = "class" /\ FileOut[j].ind = 1 /\ FileOut[j].name = inner_name
    /\ \E h \in 1..(j - 1) :
          /\ FileOut[h].kind = "class" /\ FileOut[h].ind = 0 /\ FileOut[h].name = outer_name
          /\ \A k \in (h + 1)..(j - 1) : ~(FileOut[k].kind = "class" /\ FileOut[k].ind = 0)

\* line i is a member of the class whose header is line j
MemberOf(i, j) ==
    /\ j < i
    /\ FileOut[i].ind = FileOut[j].ind + 1
    /\ \A k \in (j + 1)..i : ~(FileOut[k].kind = "class" /\ FileOut[k].ind <= FileOut[j].ind)

\* C20: in a written stub file, for a nested class Inner of a top-level class Outer:
\* an instance field of Inner whose type is a variable K that Outer declares and Inner
\* does not is annotated with _<Outer>__K if Inner is not static and with the bare K
\* if it is; the header of Inner lists Inner's own variables as
\* _<Outer>__<Inner>__<Name> in its typing.Generic base, and each of them has its
\* TypeVar line.
C20_EnclosingTypeVarsInScope ==
    out_file.written =>
        \A o \in OuterClasses : \A e \in NestedOf(o) :
            LET ic == o.innerClasses[e]
                n == package_class_data[ic.name]
                own == parse_class_type_params(n.signature).params
                own_names == [v \in DOMAIN own |->
                                 "_" \o DisplayNameOf(o.name) \o "__" \o ic.innerName
                                 \o "__" \o own[v].name]
            IN \A j \in LinesOf("class") :
                  NestedHeader(j, DisplayNameOf(o.name), ic.innerName) =>
                      /\ FileOut[j].tvs = own_names
                      /\ own # <<>> =>
                             /\ "typing.Generic[" \o JoinWith(own_names, ", ") \o "]"
                                   \in Range(FileOut[j].bases)
                             /\ \A v \in DOMAIN own : Count("typevar", own_names[v]) = 1
                      /\ \A f \in Range(n.fields) : \A K \in DeclaredNames(o) \ DeclaredNames(n) :
                            (f.signature = TVar(K) /\ ~HasFlag(f.access, ACC_STATIC)) =>
                                \A i \in LinesOf("field") :
                                    (MemberOf(i, j) /\ FileOut[i].name = f.name) =>
                                        FileOut[i].parts[1].arg_type
                                          = IF HasFlag(ic.access, ACC_STATIC) THEN <<K>>
                                            ELSE <<"_" \o DisplayNameOf(o.name) \o "__" \o K>>

\* a written stub file of class Map with the inner class Entry, whose field k is
\* annotated _Map__K, and the static nested class Node, whose field k is annotated K
C20_Witness ==
    /\ out_file.written
    /\ \E j1, j2 \in LinesOf("class") : \E i1, i2 \in LinesOf("field") :
          /\ NestedHeader(j1, "Map", "Entry") /\ MemberOf(i1, j1)
          /\ FileOut[j1].tvs = <<"_Map__Entry__E">>
          /\ FileOut[i1].text = "k: _Map__K = ..."
          /\ NestedHeader(j2, "Map", "Node") /\ MemberOf(i2, j2)
          /\ FileOut[i2].text = "k: K = ..."

(***************************************************************************)
(* Properties of a call of convert_to_python_stubs (DriverSpec).           *)
(***************************************************************************)
\* the package directories an input supplies class files for
PackagesOf(input_path) ==
    DOMAIN collect_packages_from_entries(ReadEntries(input_path).entries).packages

\* two of the inputs read so far supply the same package
Collides ==
    \E i, j \in DOMAIN loaded :
        i < j /\ PackagesOf(loaded[i]) \cap PackagesOf(loaded[j]) # {}

\* nothing under the output directory was deleted or written since the call
OutputUntouched == out_tree = start_tree /\ cleared = 0 /\ writes = {}

\* C11: once two inputs have been found to supply the same Java package the call
\* raises ValueError: it never goes on to clear the output directory, submit tasks
\* or write a file.
C11_DuplicatePackageRaises ==
    Collides => dpc \notin {"running", "done"} /\ OutputUntouched

\* an input that cannot be opened: a file with an unsupported archive extension, or
\* an .aar without classes.jar
CannotOpen(input_path) ==
    \/ ~input_path.is_dir /\ Lower(input_path.suffix) \notin {".jar", ".aar"}
    \/ Lower(input_path.suffix) = ".aar" /\ ~open_jar_or_aar_from_file(input_path).ok

\* C12: a call with an output directory of fewer than three path components, or
\* with an input that cannot be opened, raises before it deletes or writes anything
\* under the output directory; the directory is cleared at most once, after every
\* input has been read and before any worker starts.
C12_RaisesBeforeOutputTouched ==
    /\ (dpc # "idle" /\ (output_depth < 3
                          \/ \E i \in DOMAIN input_paths : CannotOpen(input_paths[i])))
          => dpc \notin {"running", "done"} /\ OutputUntouched /\ tasks = EmptyMap
    /\ cleared <= 1
    /\ ~OutputUntouched => Len(loaded) = Len(input_paths)
    /\ (cleared = 0 /\ clear_output_dir) => tasks = EmptyMap

\* C13: when the pool is left, the call has raised nothing, every submitted package
\* has been processed, exactly the packages whose file could not be created have
\* failed, and every other package has its __init__.pyi written.
C13_FailureDoesNotStopOthers ==
    dpc = "done" =>
        /\ raised = "none"
        /\ \A d \in DOMAIN tasks :
              /\ tasks[d] \in {"done", "failed"}
              /\ tasks[d] = "failed" <=> d \in unwritable
              /\ tasks[d] = "done" =>
                    /\ [task |-> d, path |-> OutputFile(d)] \in writes
                    /\ OutputFile(d) \in DOMAIN out_tree

\* one package failed in its worker, the others were written and the call returned
C13_Witness ==
    /\ dpc = "done"
    /\ raised = "none"
    /\ \E d, e \in DOMAIN tasks :
          /\ tasks[d] = "failed"
          /\ tasks[e] = "done"
          /\ OutputFile(e) \in DOMAIN out_tree

\* C14: no two package tasks of a call, the injected java package included, write
\* the same output file, and when the pool is left every file written was written
\* by exactly one task, the task of its package.
C14_OneTaskPerOutputFile ==
    /\ \A d, e \in DOMAIN tasks : d # e => OutputFile(d) # OutputFile(e)
    /\ \A a, b \in writes : a.path = b.path => a.task = b.task
    /\ \A a \in writes : a.task \in DOMAIN tasks /\ a.path = OutputFile(a.task)
    /\ dpc = "done" =>
          \A d \in DOMAIN tasks :
              tasks[d] = "done" => Cardinality({a \in writes : a.path = OutputFile(d)}) = 1

\* three packages, the injected java package among them, each wrote its own file
C14_Witness ==
    /\ dpc = "done"
    /\ <<"java">> \in DOMAIN tasks
    /\ packages[<<"java">>] = <<>>
    /\ Cardinality(DOMAIN tasks) >= 3
    /\ Cardinality({a.path : a \in writes}) = Cardinality(DOMAIN tasks)

\* C15: a second call on the same inputs and output directory, clearing or not,
\* writes the same set of stub files with the same contents as the first, in every
\* order of the workers; where the first call began on an empty or cleared
\* directory, the directory holds the same files after both.
C15_SecondRunSameStubs ==
    (first.ran /\ dpc = "done") =>
        /\ {a.path : a \in writes} = first.paths
        /\ \A path \in first.paths : path \in DOMAIN out_tree /\ out_tree[path] = first.tree[path]
        /\ first.clean => out_tree = first.tree

\* a second call without clearing has rewritten the files of two packages
C15_Witness ==
    /\ first.ran
    /\ dpc = "done"
    /\ ~clear_output_dir
    /\ Cardinality(first.paths) >= 2
    /\ \E path \in first.paths : Len(out_tree[path]) > 3

(***************************************************************************)
(* Properties of the rendering of types (TypeSpec).                        *)
(***************************************************************************)
\* C21: two TypeStr values rendered by to_annotated_type in one package are equal
\* exactly when their texts are the same.
C21_EqualIffSameText ==
    translated.op = "to_annotated_type" =>
        ((translated.types[1] = translated.types[2])
            <=> (translated.texts[1] = translated.texts[2]))

(***************************************************************************)
(* Properties of the order of a stub file (Spec).                          *)
(***************************************************************************)
\* the number of parameters a descriptor lists
ArgCount(desc) == Len(ArgumentTypes(desc, 2))

\* the class file of the top-level class whose header is line h
ClassFileOfLine(h) == package_dir \o <<"/", FileOut[h].name, ".class">>

RECURSIVE Occurrences(_, _)
\* how often the name occurs in the tree of a type
Occurrences(t, name) ==
    LET sub[i \in 0..Len(t.args)] ==
            IF i = 0 THEN 0 ELSE sub[i - 1] + Occurrences(t.args[i], name)
    IN (IF t.name = name THEN 1 ELSE 0) + sub[Len(t.args)]

\* how often the name occurs across the types of a list
OccurrencesIn(types, name) ==
    LET sub[i \in 0..Len(types)] ==
            IF i = 0 THEN 0 ELSE sub[i - 1] + Occurrences(types[i], name)
    IN sub[Len(types)]

\* the given type variables that occur at most once in the given types
SingleUse ==
    {i \in DOMAIN translated.method_type_vars :
        OccurrencesIn(translated.given, <<translated.method_type_vars[i].python_name>>) <= 1}

RECURSIVE Replaced(_)
\* the type with each occurrence of a single-use variable replaced by its bound, or
\* by java.lang.Object where it has none
Replaced(t) ==
    IF \E i \in SingleUse : <<translated.method_type_vars[i].python_name>> = t.name
    THEN LET tv == translated.method_type_vars[
                      CHOOSE i \in SingleUse :
                          <<translated.method_type_vars[i].python_name>> = t.name]
         IN IF tv.bound.some THEN tv.bound.ts ELSE TS(JAVA_LANG_OBJECT)
    ELSE IF t.args = <<>> THEN t
    ELSE TSA(t.name, [i \in DOMAIN t.args |-> Replaced(t.args[i])])

\* C23: after the elimination a method type variable that occurs at most once across
\* the parameter types and the return type is no longer declared and each occurrence
\* is replaced by its bound, or by java.lang.Object; a variable that occurs twice or
\* more is still declared and is left in place.
C23_SingleUseTypeVarsEliminated ==
    translated.op = "_eliminate_single_use_type_vars" =>
        /\ translated.kept =
              SelectSeq(translated.method_type_vars,
                        LAMBDA tv : OccurrencesIn(translated.given, <<tv.python_name>>) >= 2)
        /\ Len(translated.types) = Len(translated.given)
        /\ \A k \in DOMAIN translated.given :
              translated.types[k] = Replaced(translated.given[k])
        /\ \A i \in DOMAIN translated.method_type_vars :
              LET name == <<translated.method_type_vars[i].python_name>>
              IN IF i \in SingleUse
                 THEN OccurrencesIn(translated.types, name) = 0
                 ELSE OccurrencesIn(translated.types, name)
                          = OccurrencesIn(translated.given, name)

\* <T, U> with T used twice, once of them inside a type argument, and U used once:
\* T is kept and U is replaced
C23_Witness ==
    /\ translated.op = "_eliminate_single_use_type_vars"
    /\ Len(translated.method_type_vars) = 2
    /\ Len(translated.kept) = 1
    /\ translated.kept[1].java_name = "T"
    /\ translated.given = <<TSA(N3("java", "util", "List"), <<TS(<<"_m__T">>)>>),
                            TS(<<"_m__U">>), TS(<<"_m__T">>)>>
    /\ translated.types = <<TSA(N3("java", "util", "List"), <<TS(<<"_m__T">>)>>),
                            TS(JAVA_LANG_OBJECT), TS(<<"_m__T">>)>>

(***************************************************************************)
(* Properties of the scope of class type variables (MemberSpec).           *)
(***************************************************************************)
\* the class whose member the inspected call handled
ClassOfCall == CHOOSE cls \in SignatureClasses : cls.class_name_dotted = translated.class_name_dotted

\* the Python names of its type variables, as TypeStr names
ClassVarNames == {<<ClassOfCall.class_type_vars[k].python_name>> : k \in DOMAIN ClassOfCall.class_type_vars}

\* the Python name of its type variable K
ClassK == ClassOfCall.class_type_vars[1].python_name

\* the method the inspected call handled
MethodOfCall == SignatureMethods[translated.method]

\* every type in the trees of the types the inspected call gave
AllTypesOfCall == UNION {SubTypes(translated.types[k]) : k \in DOMAIN translated.types}

\* C24: no type of a static method's signature is a type variable of the class, and a
\* TK; the method does not declare itself stays the plain name K, while TT; of its own
\* variable is resolved; an instance method and a constructor get the class's variable
\* for TK;.  A static field of type K or List<K> is rendered with the plain name K, an
\* instance field with the class's variable.
C24_NoClassTypeVarsInStaticMembers ==
    /\ (translated.op = "_generate_method_stub_asm" /\ translated.ok) =>
          /\ HasFlag(MethodOfCall.access, ACC_STATIC) =>
                \A t \in AllTypesOfCall : t.name \notin ClassVarNames
          /\ MethodOfCall = M_make => translated.types = <<TS(<<"K">>)>>
          /\ MethodOfCall = M_conv =>
                /\ translated.types[3] = TS(<<"K">>)
                /\ translated.types[1] = translated.types[2]
                /\ translated.types[1].name # <<"T">>
          /\ MethodOfCall = M_get => translated.types[2] = TS(<<ClassK>>)
          /\ MethodOfCall = M_initK => translated.types[2] = TS(<<ClassK>>)
    /\ (translated.op = "parse_field_type" /\ translated.ok
           /\ translated.field \notin WildcardFields) =>
          LET generic == translated.field.name \in {"sl", "fl"}
              K == IF HasFlag(translated.field.access, ACC_STATIC) THEN "K" ELSE ClassK
              ann == IF generic THEN "java.util.List[" \o K \o "]" ELSE K
          IN /\ translated.rendered = ann
             /\ translated.text = translated.field.name \o ": "
                    \o (IF HasFlag(translated.field.access, ACC_STATIC)
                        THEN "typing.ClassVar[" \o ann \o "]" ELSE ann) \o " = ..."

\* the static method conv of the generic class has been parsed: its T is resolved,
\* its K is not
C24_Witness ==
    /\ translated.op = "_generate_method_stub_asm"
    /\ translated.ok
    /\ MethodOfCall = M_conv
    /\ Len(translated.types) >= 3
    /\ translated.types[3] = TS(<<"K">>)

(***************************************************************************)
(* Properties of the types inside a type argument list (MemberSpec).       *)
(***************************************************************************)
\* the type argument of a List field as the type-argument context renders it
BoxedArgument(name) ==
    IF name \in {"li", "le", "lu"} THEN "java.lang.Integer"
    ELSE IF name \in {"lt", "lx"} THEN "java.lang.String"
    ELSE IF name = "ll" THEN "java.util.List[java.lang.Integer]"
    ELSE "java.lang.Object"

\* C25: a type inside a type argument list, be it the argument itself or the bound of
\* a + or - wildcard, is rendered as the type-argument context renders it: Integer as
\* java.lang.Integer and String as java.lang.String, so that List<Integer> and
\* List<? extends Integer> both give java.util.List[java.lang.Integer].
C25_TypeArgumentsInTypeArgContext ==
    (translated.op = "parse_field_type" /\ translated.ok
     /\ translated.field \in WildcardFields) =>
        translated.rendered = "java.util.List[" \o BoxedArgument(translated.field.name) \o "]"

(***************************************************************************)
(* Properties of the parameter names of a signature (MemberSpec).          *)
(***************************************************************************)
\* the names of the Java parameters of the signature the inspected call gave: all
\* but the receiver
ParamNamesOfCall ==
    IF HasFlag(MethodOfCall.access, ACC_STATIC) THEN translated.names
    ELSE Tail(translated.names)

\* the slot of parameter i: 0 for the first of a static method and 1 of an instance
\* method, and two further after a long or a double, else one
SlotOfParam(m, i) ==
    LET arg_types == ArgumentTypes(m.desc, 2)
        slot[k \in 1..i] ==
            IF k = 1 THEN (IF HasFlag(m.access, ACC_STATIC) THEN 0 ELSE 1)
            ELSE slot[k - 1] + (IF arg_types[k - 1] \in {<<"J">>, <<"D">>} THEN 2 ELSE 1)
    IN slot[i]

\* the name of the first entry of the table for the slot, "" where it has none
FirstNameOfSlot(m, slot) ==
    LET hits == {k \in DOMAIN m.localVariables : m.localVariables[k].index = slot}
    IN IF hits = {} THEN ""
       ELSE m.localVariables[CHOOSE k \in hits : \A l \in hits : k <= l].name

\* C26: parameter i of a signature has the name of the first entry of the local-
\* variable table for its slot; where the table is missing or gives no parameter a
\* name the parameters are arg1, arg2, ..., as is a single parameter without a name.
C26_ParamNamesByFirstSlotEntry ==
    (translated.op = "_generate_method_stub_asm" /\ translated.ok) =>
        LET m == MethodOfCall
            n == Len(ArgumentTypes(m.desc, 2))
        IN /\ Len(ParamNamesOfCall) = n
           /\ \A i \in 1..n :
                 ParamNamesOfCall[i] =
                     IF FirstNameOfSlot(m, SlotOfParam(m, i)) # ""
                     THEN FirstNameOfSlot(m, SlotOfParam(m, i))
                     ELSE "arg" \o ToString(i)

(***************************************************************************)
(* Properties of the resolution of a Maven coordinate (MavenSpec).         *)
(***************************************************************************)
\* every request a call can make, in the order of the loops: .aar at each repository,
\* then .jar at each repository
AllRequests ==
    [k \in 1..(Len(Extensions) * maven.repositories) |->
        <<((k - 1) \div maven.repositories) + 1, ((k - 1) % maven.repositories) + 1>>]

\* C27: a call made while the cache holds the .aar or the .jar returns a cached file
\* and has made no download request, so a call after one that returned gives the same
\* path and makes no request; a call made with an empty cache asks for .aar and then
\* .jar at each repository in order and stops at the first that has the file; and
\* FileNotFoundError is raised only when every extension at every repository was
\* asked for and answered 404.
C27_DownloadsOnlyIfNecessary ==
    /\ (maven.pc = "returned" /\ maven.cached_before # {}) =>
          /\ maven.requests = <<>>
          /\ maven.result \in maven.cached_before
    /\ (maven.pc = "returned" /\ maven.calls >= 2) =>
          /\ maven.requests = <<>>
          /\ maven.result = maven.previous
    /\ (maven.pc = "returned" /\ maven.cached_before = {}) =>
          /\ maven.requests = SubSeq(AllRequests, 1, Len(maven.requests))
          /\ \A k \in DOMAIN maven.requests :
                maven.remote[maven.requests[k]]
                    = IF k = Len(maven.requests) THEN "200" ELSE "404"
          /\ maven.result = Extensions[maven.requests[Len(maven.requests)][1]]
    /\ (maven.pc = "raised" /\ maven.error = "FileNotFoundError") =>
          /\ maven.requests = AllRequests
          /\ \A k \in DOMAIN maven.requests : maven.remote[maven.requests[k]] = "404"

(***************************************************************************)
(* Properties of type variables of one name in nested scopes (Spec).       *)
(***************************************************************************)
\* C28: in a written stub file, an instance field of a non-static inner class Inner of
\* Outer whose type is a variable K that both Inner and Outer declare is annotated
\* with Inner's variable _<Outer>__<Inner>__K; and the method <K> K same(K, K) of the
\* class Box<K> is emitted with its own variable _same__K throughout.
C28_InnerTypeVarShadowsOuter ==
    out_file.written =>
        /\ \A o \in OuterClasses : \A e \in NestedOf(o) :
              LET ic == o.innerClasses[e]
                  n == package_class_data[ic.name]
              IN \A j \in LinesOf("class") :
                    (NestedHeader(j, DisplayNameOf(o.name), ic.innerName)
                     /\ ~HasFlag(ic.access, ACC_STATIC)) =>
                        \A f \in Range(n.fields) :
                            \A K \in DeclaredNames(o) \cap DeclaredNames(n) :
                                (f.signature = TVar(K) /\ ~HasFlag(f.access, ACC_STATIC)) =>
                                    \A i \in LinesOf("field") :
                                        (MemberOf(i, j) /\ FileOut[i].name = f.name) =>
                                            FileOut[i].parts[1].arg_type
                                              = <<"_" \o DisplayNameOf(o.name) \o "__"
                                                  \o ic.innerName \o "__" \o K>>
        /\ \A i \in LinesOf("def") :
              FileOut[i].name = "same" =>
                  FileOut[i].text
                    = "def same(self, arg1: _same__K, arg2: _same__K, /) -> _same__K: ..."

(***************************************************************************)
(* Properties of the parameter names of a def line (Spec).                 *)
(***************************************************************************)
\* the parts of def line i that are parameters: the receiver and the Java parameters
ParamParts(i) == {k \in DOMAIN FileOut[i].parts : FileOut[i].parts[k].kind \in {"self", "param"}}

\* the name part k of def line i is emitted under
ParamName(i, k) ==
    IF FileOut[i].parts[k].kind = "self" THEN "self" ELSE FileOut[i].parts[k].name

\* C29: in a written stub file the parameters of every def line have pairwise distinct
\* names, and only the first parameter of a def that is not a static method, its
\* receiver, has the name self.
C29_ParamNamesDistinct ==
    out_file.written =>
        \A i \in LinesOf("def") :
            /\ \A k, l \in ParamParts(i) : k # l => ParamName(i, k) # ParamName(i, l)
            /\ \A k \in ParamParts(i) :
                  ParamName(i, k) = "self" => (k = 1 /\ ~HasDeco(i, "@staticmethod"))

(***************************************************************************)
(* Properties of the walk over the nested classes (Spec).                  *)
(***************************************************************************)
\* C30: in a written stub file every class of the package has at most one header,
\* whatever the InnerClasses attributes of its classes name.
C30_EachClassEmittedOnce ==
    out_file.written =>
        \A cn \in Range(package_class_data) : Count("class", DisplayNameOf(cn.name)) <= 1

====
